---- MODULE Spec2Model ----
(***************************************************************************)
(* Model of the resilience layer of GPT-OS Enterprise                      *)
(* (src/gpt_shell_enterprise.py): CircuitBreaker, LRUCache and TokenBucket  *)
(* with the Metrics they write to, and LLMService.translate_command, which *)
(* combines them around the provider calls.                                *)
(*                                                                         *)
(* Every method is a pure operator over the object's fields (a record),    *)
(* the Metrics object and the clock reading, returning the fields after    *)
(* the call, the metrics after the call and the return value.  An action   *)
(* is one call of a method, or the part of a coroutine between two         *)
(* suspension points.  datetime.now() is the integer variable now, in      *)
(* seconds; time.time() is the variable clock, in ticks of                 *)
(* 1/TicksPerSecond seconds; both show the same time.                      *)
(***************************************************************************)
EXTENDS Integers, Sequences, FiniteSets, TLC

VARIABLES
    now,            \* the wall clock as datetime.now() reads it, in seconds
    clock,          \* the wall clock as time.time() reads it, in ticks
    bucket,         \* the TokenBucket object's fields
    breaker,        \* the CircuitBreaker object's fields
    cache_enabled,  \* Config.cache_enabled
    cache,          \* LRUCache.cache: the OrderedDict, oldest position first
    metrics,        \* the Metrics object: counters and gauges
    call,           \* history: the last call, its key argument and return value
    run,            \* history: record_failure calls since the last record_success
    tripped,        \* history: run has reached the failure threshold
    episode,        \* history: record_success calls since HALF_OPEN was entered
    touch,          \* history: keys by last set or get hit, oldest first
    fresh,          \* history: every set so far inserted a new key, nothing was removed by expiry or clear
    since_tick,     \* history: the allow_request calls made since time last passed
    tally,          \* history: the allow_request calls admitted since construction, and when calls were denied
    llm_model,      \* Config.llm_model
    req,            \* the translate_command invocations: position and local variables
    log,            \* history: what each invocation has done so far, in order
    invocations,    \* history: the number of translate_command calls so far
    backoff,        \* a retry configuration and the last delay computed under it
    task_queue,     \* the TaskQueue object: running, the queue's heap, the worker tasks
    putters,        \* the enqueue calls that wait in queue.put for a free slot
    lifecycle,      \* how far start() and stop() have got
    task_hist,      \* history: what became of each task
    orphans,        \* the worker tasks that TaskQueue.workers no longer holds and that have not ended
    shell           \* the shell's initialize/shutdown position and its background loops

vars == <<now, clock, bucket, breaker, cache_enabled, cache, metrics, call, run, tripped,
          episode, touch, fresh, since_tick, tally, llm_model, req, log, invocations,
          backoff, task_queue, putters, lifecycle, task_hist, orphans, shell>>

----------------------------------------------------------------------------
(* Bounds of the model *)

MaxTime == 2
MaxBreakerTime == 5
MaxCount == 2
TicksPerSecond == 2
MaxBucketTime == 5
MaxDenied == 2
MaxRequests == 4
MaxTranslateTime == 4
MaxBaseDelay == 3
MaxDelayCap == 10
MaxExponentialBase == 3
MaxAttempt == 3
MaxTasks == 4
MaxPutters == 1
MaxInvocations == 2
MaxOrphans == 2
MaxKept == 1
MaxAlive == 3

(* Configuration (class Config).  The breaker is enabled, as Config.from_env *)
(* always leaves it; its thresholds are small values in place of the       *)
(* defaults; the cache has the size and ttl test_cache configures, the     *)
(* rate limiter the rate and burst size test_rate_limiter configures; the  *)
(* retry delays and the models are the defaults.                           *)

circuit_breaker_enabled == TRUE
circuit_breaker_failure_threshold == 3
circuit_breaker_recovery_timeout == 2
circuit_breaker_success_threshold == 2
cache_max_size == 3
cache_ttl == 1
rate_limit_enabled == TRUE
rate_limit_requests_per_minute == 60
rate_limit_burst_size == 3
retry_max_attempts == 3
retry_base_delay == 1
retry_max_delay == 10
retry_exponential_base == 2
retry_jitter == TRUE
task_queue_workers == 2
task_queue_max_size == 3
PrimaryModel == "gpt-4.1-mini"
fallback_models == <<"gpt-4.1-nano", "gemini-2.5-flash">>

Min(a, b) == IF a < b THEN a ELSE b

Range(q) == {q[i] : i \in DOMAIN q}

Remove(q, k) == SelectSeq(q, LAMBDA x : x # k)

\* a boolean return value as the history records it
Repr(b) == IF b THEN "True" ELSE "False"

----------------------------------------------------------------------------
(* Metrics *)

CounterNames == {"cache_miss", "cache_hit", "cache_expired", "cache_eviction",
                 "retry_success", "retry_attempt", "retry_exhausted",
                 "fallback_used", "translations_total", "translation_errors",
                 "tasks_enqueued", "tasks_rejected", "tasks_completed", "tasks_failed",
                 "gc_runs"}
GaugeNames == {"circuit_breaker_state", "cache_size", "queue_size"}
HistogramNames == {"translation_latency_ms", "task_duration_ms"}
MAX_HISTOGRAM_SIZE == 1000

\* a gauge that was never set (the key is absent from Metrics.gauges)
NoGauge == -1

\* Metrics.__init__; a counter that is absent reads 0 (counters.get(name, 0))
Metrics_init ==
    [counters   |-> [c \in CounterNames |-> 0],
     gauges     |-> [g \in GaugeNames |-> NoGauge],
     histograms |-> [h \in HistogramNames |-> <<>>]]

Metrics_increment(m, name) ==
    [m EXCEPT !.counters[name] = @ + 1]

Metrics_set_gauge(m, name, value) ==
    [m EXCEPT !.gauges[name] = value]

\* a histogram that is absent reads as the empty list
Metrics_observe(m, name, value) ==
    LET h == Append(m.histograms[name], value)
    IN  [m EXCEPT !.histograms[name] =
            IF Len(h) > MAX_HISTOGRAM_SIZE
            THEN SubSeq(h, Len(h) - MAX_HISTOGRAM_SIZE + 1, Len(h))
            ELSE h]

----------------------------------------------------------------------------
(* CircuitBreaker *)

CLOSED == "closed"
OPEN == "open"
HALF_OPEN == "half_open"
CircuitState == {CLOSED, OPEN, HALF_OPEN}

\* last_failure_time is None
NoTime == -1

\* circuit_breaker_state gauge values, in tenths: 1 (OPEN), 0.5 (HALF_OPEN), 0 (CLOSED)
GAUGE_OPEN == 10
GAUGE_HALF_OPEN == 5
GAUGE_CLOSED == 0

CircuitBreaker_init(t) ==
    [state             |-> CLOSED,
     failure_count     |-> 0,
     success_count     |-> 0,
     last_failure_time |-> NoTime,
     last_state_change |-> t]

transition_to_open(self, m, t) ==
    [self    |-> [self EXCEPT !.state = OPEN, !.last_state_change = t],
     metrics |-> Metrics_set_gauge(m, "circuit_breaker_state", GAUGE_OPEN)]

transition_to_half_open_keep(self, m, t) ==
    [self    |-> [self EXCEPT !.state = HALF_OPEN, !.last_state_change = t],
     metrics |-> Metrics_set_gauge(m, "circuit_breaker_state", GAUGE_HALF_OPEN)]

transition_to_half_open_silent(self, m, t) ==
    [self    |-> [self EXCEPT !.state = HALF_OPEN, !.success_count = 0,
                              !.last_state_change = t],
     metrics |-> m]

transition_to_half_open(self, m, t) ==
    [self    |-> [self EXCEPT !.state = HALF_OPEN, !.success_count = 0,
                              !.last_state_change = t],
     metrics |-> Metrics_set_gauge(m, "circuit_breaker_state", GAUGE_HALF_OPEN)]

transition_to_closed(self, m, t) ==
    [self    |-> [self EXCEPT !.state = CLOSED, !.failure_count = 0,
                              !.success_count = 0, !.last_state_change = t],
     metrics |-> Metrics_set_gauge(m, "circuit_breaker_state", GAUGE_CLOSED)]

recovery_elapsed_since_change(self, t) ==
    /\ self.last_failure_time # NoTime
    /\ t - self.last_state_change >= circuit_breaker_recovery_timeout

recovery_elapsed_strict(self, t) ==
    /\ self.last_failure_time # NoTime
    /\ t - self.last_failure_time > circuit_breaker_recovery_timeout

\* lines 281-283: last_failure_time is set and the recovery timeout has passed
recovery_elapsed(self, t) ==
    /\ self.last_failure_time # NoTime
    /\ t - self.last_failure_time >= circuit_breaker_recovery_timeout

CircuitBreaker_should_allow_request(self, m, t) ==
    IF ~circuit_breaker_enabled
    THEN [self |-> self, metrics |-> m, ret |-> TRUE]
    ELSE IF self.state = CLOSED
    THEN [self |-> self, metrics |-> m, ret |-> TRUE]
    ELSE IF self.state = OPEN
    THEN IF recovery_elapsed(self, t)
         THEN LET r == transition_to_half_open(self, m, t)
              IN  [self |-> r.self, metrics |-> r.metrics, ret |-> TRUE]
         ELSE [self |-> self, metrics |-> m, ret |-> FALSE]
    ELSE IF self.state = HALF_OPEN
    THEN [self |-> self, metrics |-> m, ret |-> TRUE]
    ELSE [self |-> self, metrics |-> m, ret |-> FALSE]

CircuitBreaker_record_success_keep(self, m, t) ==
    IF self.state = HALF_OPEN
    THEN LET s1 == [self EXCEPT !.success_count = @ + 1]
         IN  IF s1.success_count >= circuit_breaker_success_threshold
             THEN transition_to_closed(s1, m, t)
             ELSE [self |-> s1, metrics |-> m]
    ELSE [self |-> self, metrics |-> m]

CircuitBreaker_record_success(self, m, t) ==
    IF self.state = HALF_OPEN
    THEN LET s1 == [self EXCEPT !.success_count = @ + 1]
         IN  IF s1.success_count >= circuit_breaker_success_threshold
             THEN transition_to_closed(s1, m, t)
             ELSE [self |-> s1, metrics |-> m]
    ELSE IF self.state = CLOSED
    THEN [self |-> [self EXCEPT !.failure_count = 0], metrics |-> m]
    ELSE [self |-> self, metrics |-> m]

CircuitBreaker_record_failure_noclock(self, m, t) ==
    IF self.state = HALF_OPEN
    THEN transition_to_open(self, m, t)
    ELSE IF self.state = CLOSED
    THEN LET s2 == [self EXCEPT !.last_failure_time = t, !.failure_count = @ + 1]
         IN  IF s2.failure_count >= circuit_breaker_failure_threshold
             THEN transition_to_open(s2, m, t)
             ELSE [self |-> s2, metrics |-> m]
    ELSE [self |-> [self EXCEPT !.last_failure_time = t], metrics |-> m]

CircuitBreaker_record_failure_ignored(self, m, t) ==
    IF self.state = OPEN
    THEN [self |-> self, metrics |-> m]
    ELSE CircuitBreaker_record_failure_noclock(self, m, t)

CircuitBreaker_record_failure(self, m, t) ==
    LET s1 == [self EXCEPT !.last_failure_time = t]
    IN  IF s1.state = HALF_OPEN
        THEN transition_to_open(s1, m, t)
        ELSE IF s1.state = CLOSED
        THEN LET s2 == [s1 EXCEPT !.failure_count = @ + 1]
             IN  IF s2.failure_count >= circuit_breaker_failure_threshold
                 THEN transition_to_open(s2, m, t)
                 ELSE [self |-> s2, metrics |-> m]
        ELSE [self |-> s1, metrics |-> m]

----------------------------------------------------------------------------
(* LRUCache *)

\* Optional[...] is None
None == "None"

\* the arguments the callers draw from
Keys == {"a", "b", "c", "d"}
Values == {"v1", "v2"}
\* set(key, value) is called without a ttl (ttl=None)
NoTtl == -1

TtlArgs == {NoTtl, 2}

\* the (value, ttl) pairs set is called with while time passes
SetArgs == {<<"v1", NoTtl>>, <<"v2", 2>>}

\* the keys set and get are called with while no time passes
LruKeys == Keys \cup {"e"}

\* the OrderedDict is a sequence of [key, entry] items, first item = oldest position
KeysOf(c) == {c[i].key : i \in DOMAIN c}

IndexOf(c, k) == CHOOSE i \in DOMAIN c : c[i].key = k

CacheEntry(value, timestamp, ttl) ==
    [value |-> value, timestamp |-> timestamp, ttl |-> ttl]

CacheEntry_is_expired_strict(e, t) ==
    t - e.timestamp > e.ttl

CacheEntry_is_expired(e, t) ==
    t - e.timestamp >= e.ttl

\* del self.cache[key]
OrderedDict_delitem(c, k) ==
    SelectSeq(c, LAMBDA item : item.key # k)

\* self.cache.move_to_end(key)
OrderedDict_move_to_end(c, k) ==
    Append(OrderedDict_delitem(c, k), c[IndexOf(c, k)])

\* self.cache.popitem(last=False)
OrderedDict_popitem_first(c) ==
    Tail(c)

\* self.cache[key] = entry: a key already present keeps its position
OrderedDict_setitem(c, k, e) ==
    IF k \in KeysOf(c)
    THEN [c EXCEPT ![IndexOf(c, k)] = [key |-> k, entry |-> e]]
    ELSE Append(c, [key |-> k, entry |-> e])

LRUCache_get_nopromote(c, m, enabled, k, t) ==
    IF ~enabled
    THEN [cache |-> c, metrics |-> m, ret |-> None]
    ELSE IF k \notin KeysOf(c)
    THEN [cache |-> c, metrics |-> Metrics_increment(m, "cache_miss"), ret |-> None]
    ELSE LET entry == c[IndexOf(c, k)].entry
         IN  IF CacheEntry_is_expired(entry, t)
             THEN [cache   |-> OrderedDict_delitem(c, k),
                   metrics |-> Metrics_increment(m, "cache_expired"),
                   ret     |-> None]
             ELSE [cache   |-> c,
                   metrics |-> Metrics_increment(m, "cache_hit"),
                   ret     |-> entry.value]

LRUCache_get(c, m, enabled, k, t) ==
    IF ~enabled
    THEN [cache |-> c, metrics |-> m, ret |-> None]
    ELSE IF k \notin KeysOf(c)
    THEN [cache |-> c, metrics |-> Metrics_increment(m, "cache_miss"), ret |-> None]
    ELSE LET entry == c[IndexOf(c, k)].entry
         IN  IF CacheEntry_is_expired(entry, t)
             THEN [cache   |-> OrderedDict_delitem(c, k),
                   metrics |-> Metrics_increment(m, "cache_expired"),
                   ret     |-> None]
             ELSE [cache   |-> OrderedDict_move_to_end(c, k),
                   metrics |-> Metrics_increment(m, "cache_hit"),
                   ret     |-> entry.value]

LRUCache_set_noevict(c, m, enabled, k, v, ttl_arg, t) ==
    IF ~enabled
    THEN [cache |-> c, metrics |-> m]
    ELSE LET ttl == IF ttl_arg = NoTtl THEN cache_ttl ELSE ttl_arg
             c2  == OrderedDict_setitem(c, k, CacheEntry(v, t, ttl))
         IN  [cache |-> c2, metrics |-> Metrics_set_gauge(m, "cache_size", Len(c2))]

LRUCache_set_always(c, m, enabled, k, v, ttl_arg, t) ==
    LET ttl   == IF ttl_arg = NoTtl THEN cache_ttl ELSE ttl_arg
        evict == Len(c) >= cache_max_size
        c1    == IF evict THEN OrderedDict_popitem_first(c) ELSE c
        m1    == IF evict THEN Metrics_increment(m, "cache_eviction") ELSE m
        c2    == OrderedDict_setitem(c1, k, CacheEntry(v, t, ttl))
    IN  [cache |-> c2, metrics |-> Metrics_set_gauge(m1, "cache_size", Len(c2))]

LRUCache_set(c, m, enabled, k, v, ttl_arg, t) ==
    IF ~enabled
    THEN [cache |-> c, metrics |-> m]
    ELSE LET ttl   == IF ttl_arg = NoTtl THEN cache_ttl ELSE ttl_arg
             evict == Len(c) >= cache_max_size
             c1    == IF evict THEN OrderedDict_popitem_first(c) ELSE c
             m1    == IF evict THEN Metrics_increment(m, "cache_eviction") ELSE m
             c2    == OrderedDict_setitem(c1, k, CacheEntry(v, t, ttl))
         IN  [cache |-> c2, metrics |-> Metrics_set_gauge(m1, "cache_size", Len(c2))]

LRUCache_clear(c, m) ==
    [cache |-> <<>>, metrics |-> Metrics_set_gauge(m, "cache_size", 0)]

LRUCache_cleanup_expired(c, m, t) ==
    LET c2 == SelectSeq(c, LAMBDA item : ~CacheEntry_is_expired(item.entry, t))
    IN  [cache   |-> c2,
         metrics |-> IF Len(c2) # Len(c)
                     THEN Metrics_set_gauge(m, "cache_size", Len(c2))
                     ELSE m]

----------------------------------------------------------------------------
(* TokenBucket *)

\* tokens are counted in units of 1/TokenUnit token, so that the refill of one
\* tick, rate / TicksPerSecond tokens with rate = requests_per_minute / 60, is
\* the whole number rate_limit_requests_per_minute of units
TokenUnit == 60 * TicksPerSecond

TokenBucket_init(t) ==
    [tokens      |-> rate_limit_burst_size * TokenUnit,
     last_update |-> t]

TokenBucket_allow_request_nocap(self, t) ==
    IF ~rate_limit_enabled
    THEN [self |-> self, ret |-> TRUE]
    ELSE LET elapsed == t - self.last_update
             s1 == [tokens      |-> self.tokens + elapsed * rate_limit_requests_per_minute,
                    last_update |-> t]
         IN  IF s1.tokens >= TokenUnit
             THEN [self |-> [s1 EXCEPT !.tokens = @ - TokenUnit], ret |-> TRUE]
             ELSE [self |-> s1, ret |-> FALSE]

TokenBucket_allow_request_charge(self, t) ==
    IF ~rate_limit_enabled
    THEN [self |-> self, ret |-> TRUE]
    ELSE LET elapsed == t - self.last_update
             s1 == [tokens      |-> Min(rate_limit_burst_size * TokenUnit,
                                        self.tokens + elapsed * rate_limit_requests_per_minute),
                    last_update |-> t]
         IN  [self |-> [s1 EXCEPT !.tokens = @ - TokenUnit], ret |-> s1.tokens >= TokenUnit]

TokenBucket_allow_request_lossy(self, t) ==
    IF ~rate_limit_enabled
    THEN [self |-> self, ret |-> TRUE]
    ELSE LET elapsed == t - self.last_update
             s1 == [tokens      |-> Min(rate_limit_burst_size * TokenUnit,
                                        self.tokens + elapsed * rate_limit_requests_per_minute),
                    last_update |-> t]
         IN  IF s1.tokens >= TokenUnit
             THEN [self |-> [s1 EXCEPT !.tokens = @ - TokenUnit], ret |-> TRUE]
             ELSE [self |-> [self EXCEPT !.last_update = t], ret |-> FALSE]

TokenBucket_allow_request(self, t) ==
    IF ~rate_limit_enabled
    THEN [self |-> self, ret |-> TRUE]
    ELSE LET elapsed == t - self.last_update
             s1 == [tokens      |-> Min(rate_limit_burst_size * TokenUnit,
                                        self.tokens + elapsed * rate_limit_requests_per_minute),
                    last_update |-> t]
         IN  IF s1.tokens >= TokenUnit
             THEN [self |-> [s1 EXCEPT !.tokens = @ - TokenUnit], ret |-> TRUE]
             ELSE [self |-> s1, ret |-> FALSE]

----------------------------------------------------------------------------
(* LLMService.translate_command *)

\* A coroutine runs from one suspension point to the next without
\* interruption.  The operators below are these runs: each takes the service
\* (the objects translate_command works on, the clock, the invocation's local
\* variables and its history) and returns it as it is at the next suspension
\* point or at the return.

\* the coroutines that may call translate_command
Procs == {"p1", "p2"}

\* what the caller passes: the user's text and the context (the cwd)
UserInputs == {"ls"}
Contexts == {"/", "/tmp"}
Requests == UserInputs \X Contexts

\* what a provider call ends in: a parsed response, no result (the response
\* holds no JSON object) or an exception
Errors == {"TimeoutError", "APIError"}
Responses == {"v1"}
Outcomes == Responses \cup {None} \cup Errors
FallbackOutcomes == Responses \cup {None, "APIError"}

\* the dict _fallback_translation builds when every fallback model failed:
\* command "", safe False, "All LLM services are currently unavailable."
Degraded == "unavailable"

\* an entry of an invocation's history: the call made or the point reached,
\* with its argument or result
Ev(e, a) == [ev |-> e, arg |-> a]

\* the local variables of an invocation that is not running; entry_metrics is
\* not a variable of the code: it keeps the metrics as they were when the
\* invocation was called, for the properties to compare with
Idle ==
    [pc             |-> "idle",
     cache_key      |-> None,
     start_time     |-> 0,
     attempt        |-> 0,
     last_exception |-> None,
     delay          |-> 0,
     fallback_index |-> 0,
     original_model |-> None,
     entry_metrics  |-> Metrics_init]

Now(st) == st.clock \div TicksPerSecond

\* md5 of "user_input:context", taken as the string itself
generate_cache_key(user_input, context_str) ==
    user_input \o ":" \o context_str

\* return <value>
Return(st, value) ==
    [st EXCEPT !.inv = Idle, !.log = Append(@, Ev("return", value))]

\* _call_llm up to its suspension point: the request goes to the model that
\* config.llm_model names at this moment
call_llm(st, kind) ==
    [st EXCEPT !.log = Append(@, Ev(kind, st.llm_model))]

\* _fallback_translation: the for loop from its i-th iteration on
fallback_next(st, i) ==
    IF i > Len(fallback_models)
    THEN Return(st, Degraded)
    ELSE call_llm([st EXCEPT !.inv.pc = "fallback",
                             !.inv.fallback_index = i,
                             !.inv.original_model = st.llm_model,
                             !.llm_model = fallback_models[i]],
                  "fallback_call")

fallback_translation(st) ==
    fallback_next([st EXCEPT !.metrics = Metrics_increment(@, "fallback_used"),
                             !.log = Append(@, Ev("fallback_translation", ""))], 1)

\* _fallback_translation resumed with the outcome of the provider call: an
\* exception skips the line that restores config.llm_model
fallback_result_first(st, outcome) ==
    LET s0 == [st EXCEPT !.log = Append(@, Ev("fallback_result", outcome))]
        i  == st.inv.fallback_index
    IN  IF outcome \in Errors
        THEN fallback_next(s0, i + 1)
        ELSE Return([s0 EXCEPT !.llm_model = s0.inv.original_model], outcome)

fallback_result(st, outcome) ==
    LET s0 == [st EXCEPT !.log = Append(@, Ev("fallback_result", outcome))]
        i  == st.inv.fallback_index
    IN  IF outcome \in Errors
        THEN fallback_next(s0, i + 1)
        ELSE LET s1 == [s0 EXCEPT !.llm_model = s0.inv.original_model]
             IN  IF outcome # None
                 THEN Return(s1, outcome)
                 ELSE fallback_next(s1, i + 1)

\* translate_command, lines 634-645: the wrapper returned result
translate_finish(st, result) ==
    LET s1 == IF result # None
              THEN LET w == LRUCache_set(st.cache, st.metrics, cache_enabled,
                                         st.inv.cache_key, result, NoTtl, Now(st))
                       b == CircuitBreaker_record_success(st.breaker, w.metrics, Now(st))
                   IN  [st EXCEPT !.cache = w.cache, !.breaker = b.self,
                                  !.metrics = b.metrics,
                                  !.log = @ \o <<Ev("set", result), Ev("record_success", "")>>]
              ELSE LET b == CircuitBreaker_record_failure(st.breaker, st.metrics, Now(st))
                   IN  [st EXCEPT !.breaker = b.self, !.metrics = b.metrics,
                                  !.log = Append(@, Ev("record_failure", ""))]
        m2 == Metrics_increment(
                  Metrics_observe(s1.metrics, "translation_latency_ms",
                                  s1.clock - s1.inv.start_time),
                  "translations_total")
    IN  Return([s1 EXCEPT !.metrics = m2], result)

\* translate_command, lines 647-655: the wrapper raised
translate_except(st) ==
    LET b == CircuitBreaker_record_failure(st.breaker, st.metrics, Now(st))
    IN  fallback_translation(
            [st EXCEPT !.breaker = b.self,
                       !.metrics = Metrics_increment(b.metrics, "translation_errors"),
                       !.log = Append(@, Ev("record_failure", ""))])

\* the retry fields of the Config the service was built with
RetryConfig ==
    [retry_base_delay       |-> retry_base_delay,
     retry_max_delay        |-> retry_max_delay,
     retry_exponential_base |-> retry_exponential_base,
     retry_jitter           |-> retry_jitter]

backoff_delay_uncapped(config, attempt) ==
    config.retry_base_delay * config.retry_exponential_base ^ attempt

\* min(retry_max_delay, retry_base_delay * retry_exponential_base ** attempt),
\* in seconds
backoff_delay(config, attempt) ==
    Min(config.retry_max_delay,
        config.retry_base_delay * config.retry_exponential_base ^ attempt)

uniform_jitter_fifth(config, delay) ==
    IF config.retry_jitter THEN 0 .. ((delay * TicksPerSecond) \div 5) ELSE {0}

\* what random.uniform(0, delay * 0.1) may return, in whole ticks; nothing is
\* added when retry_jitter is off
uniform_jitter(config, delay) ==
    IF config.retry_jitter THEN 0 .. ((delay * TicksPerSecond) \div 10) ELSE {0}

\* the delay after failed attempt number attempt, in seconds
retry_delay(attempt) == backoff_delay(RetryConfig, attempt)

\* random.uniform(0, delay * 0.1), in whole ticks
Jitter(delay) == uniform_jitter(RetryConfig, delay)

\* _call_llm_with_retry_wrapper: the body of the for loop up to the provider call
wrapper_attempt(st, attempt) ==
    call_llm([st EXCEPT !.inv.pc = "primary", !.inv.attempt = attempt], "primary_call")

call_llm_with_retry_wrapper(st) ==
    wrapper_attempt([st EXCEPT !.inv.last_exception = None], 0)

\* the wrapper resumed with the outcome of the provider call
primary_result_sleepy(st, outcome) ==
    LET s0 == [st EXCEPT !.log = Append(@, Ev("primary_result", outcome))]
        attempt == st.inv.attempt
    IN  IF outcome \notin Errors
        THEN LET s1 == IF attempt > 0
                       THEN [s0 EXCEPT !.metrics = Metrics_increment(@, "retry_success")]
                       ELSE s0
             IN  translate_finish([s1 EXCEPT !.log = Append(@, Ev("wrapper_return", outcome))],
                                  outcome)
        ELSE LET s1 == [s0 EXCEPT !.inv.last_exception = outcome,
                                  !.metrics = Metrics_increment(@, "retry_attempt"),
                                  !.log = Append(@, Ev("sleep", ""))]
             IN  IF attempt < retry_max_attempts - 1
                 THEN [s1 EXCEPT !.inv.delay = retry_delay(attempt), !.inv.pc = "sleep"]
                 ELSE translate_except(
                          [s1 EXCEPT !.metrics = Metrics_increment(@, "retry_exhausted"),
                                     !.log = Append(@, Ev("wrapper_raise",
                                                          s1.inv.last_exception))])

primary_result_first_error(st, outcome) ==
    LET s0 == [st EXCEPT !.log = Append(@, Ev("primary_result", outcome))]
        attempt == st.inv.attempt
    IN  IF outcome \notin Errors
        THEN LET s1 == IF attempt > 0
                       THEN [s0 EXCEPT !.metrics = Metrics_increment(@, "retry_success")]
                       ELSE s0
             IN  translate_finish([s1 EXCEPT !.log = Append(@, Ev("wrapper_return", outcome))],
                                  outcome)
        ELSE LET s1 == [s0 EXCEPT !.inv.last_exception =
                                      IF @ = None THEN outcome ELSE @]
             IN  IF attempt < retry_max_attempts - 1
                 THEN [s1 EXCEPT !.inv.delay = retry_delay(attempt),
                                 !.inv.pc = "sleep",
                                 !.metrics = Metrics_increment(@, "retry_attempt"),
                                 !.log = Append(@, Ev("sleep", ""))]
                 ELSE translate_except(
                          [s1 EXCEPT !.metrics = Metrics_increment(@, "retry_exhausted"),
                                     !.log = Append(@, Ev("wrapper_raise",
                                                          s1.inv.last_exception))])

primary_result_per_attempt(st, outcome) ==
    LET s0 == [st EXCEPT !.log = Append(@, Ev("primary_result", outcome))]
        attempt == st.inv.attempt
    IN  IF outcome \notin Errors
        THEN LET s1 == IF attempt > 0
                       THEN [s0 EXCEPT !.metrics = Metrics_increment(@, "retry_success")]
                       ELSE s0
             IN  translate_finish([s1 EXCEPT !.log = Append(@, Ev("wrapper_return", outcome))],
                                  outcome)
        ELSE LET s1 == [s0 EXCEPT !.inv.last_exception = outcome]
                 b  == CircuitBreaker_record_failure(s1.breaker, s1.metrics, Now(s1))
             IN  IF attempt < retry_max_attempts - 1
                 THEN [s1 EXCEPT !.inv.delay = retry_delay(attempt),
                                 !.inv.pc = "sleep",
                                 !.breaker = b.self,
                                 !.metrics = Metrics_increment(b.metrics, "retry_attempt"),
                                 !.log = Append(@, Ev("sleep", ""))]
                 ELSE translate_except(
                          [s1 EXCEPT !.metrics = Metrics_increment(@, "retry_exhausted"),
                                     !.log = Append(@, Ev("wrapper_raise",
                                                          s1.inv.last_exception))])

primary_result(st, outcome) ==
    LET s0 == [st EXCEPT !.log = Append(@, Ev("primary_result", outcome))]
        attempt == st.inv.attempt
    IN  IF outcome \notin Errors
        THEN LET s1 == IF attempt > 0
                       THEN [s0 EXCEPT !.metrics = Metrics_increment(@, "retry_success")]
                       ELSE s0
             IN  translate_finish([s1 EXCEPT !.log = Append(@, Ev("wrapper_return", outcome))],
                                  outcome)
        ELSE LET s1 == [s0 EXCEPT !.inv.last_exception = outcome]
             IN  IF attempt < retry_max_attempts - 1
                 THEN [s1 EXCEPT !.inv.delay = retry_delay(attempt),
                                 !.inv.pc = "sleep",
                                 !.metrics = Metrics_increment(@, "retry_attempt"),
                                 !.log = Append(@, Ev("sleep", ""))]
                 ELSE translate_except(
                          [s1 EXCEPT !.metrics = Metrics_increment(@, "retry_exhausted"),
                                     !.log = Append(@, Ev("wrapper_raise",
                                                          s1.inv.last_exception))])

sleep_done_again(st, jitter) ==
    wrapper_attempt([st EXCEPT !.clock = @ + st.inv.delay * TicksPerSecond + jitter,
                               !.inv.delay = 0],
                    st.inv.attempt)

\* asyncio.sleep(delay) returned: the delay and its jitter have passed
sleep_done(st, jitter) ==
    wrapper_attempt([st EXCEPT !.clock = @ + st.inv.delay * TicksPerSecond + jitter,
                               !.inv.delay = 0],
                    st.inv.attempt + 1)

\* translate_command up to its first suspension point or its return
translate_command_cache_first(st, user_input, context) ==
    LET s0  == [st EXCEPT !.inv.start_time = st.clock,
                          !.inv.entry_metrics = st.metrics,
                          !.log = <<Ev("translate_command", user_input \o ":" \o context)>>]
        key == generate_cache_key(user_input, context)
        g   == LRUCache_get(s0.cache, s0.metrics, cache_enabled, key, Now(s0))
        s2  == [s0 EXCEPT !.cache = g.cache, !.metrics = g.metrics,
                          !.inv.cache_key = key,
                          !.log = Append(@, Ev("get", g.ret))]
        rl  == TokenBucket_allow_request(s2.bucket, s2.clock)
        s1  == [s2 EXCEPT !.bucket = rl.self,
                          !.log = Append(@, Ev("allow_request", Repr(rl.ret)))]
    IN  IF ~rl.ret
        THEN Return(s1, None)
        ELSE IF g.ret # None
        THEN Return([s1 EXCEPT !.metrics =
                         Metrics_observe(@, "translation_latency_ms",
                                         s1.clock - s1.inv.start_time)],
                    g.ret)
        ELSE LET b  == CircuitBreaker_should_allow_request(s1.breaker, s1.metrics, Now(s1))
                 s3 == [s1 EXCEPT !.breaker = b.self, !.metrics = b.metrics,
                                  !.log = Append(@, Ev("should_allow_request",
                                                       Repr(b.ret)))]
             IN  IF ~b.ret
                 THEN fallback_translation(s3)
                 ELSE call_llm_with_retry_wrapper(s3)

translate_command_breaker_first(st, user_input, context) ==
    LET s0 == [st EXCEPT !.inv.start_time = st.clock,
                         !.inv.entry_metrics = st.metrics,
                         !.log = <<Ev("translate_command", user_input \o ":" \o context)>>]
        rl == TokenBucket_allow_request(s0.bucket, s0.clock)
        s1 == [s0 EXCEPT !.bucket = rl.self,
                         !.log = Append(@, Ev("allow_request", Repr(rl.ret)))]
    IN  IF ~rl.ret
        THEN Return(s1, None)
        ELSE LET b   == CircuitBreaker_should_allow_request(s1.breaker, s1.metrics, Now(s1))
                 s3  == [s1 EXCEPT !.breaker = b.self, !.metrics = b.metrics,
                                   !.log = Append(@, Ev("should_allow_request",
                                                        Repr(b.ret)))]
                 key == generate_cache_key(user_input, context)
                 g   == LRUCache_get(s3.cache, s3.metrics, cache_enabled, key, Now(s3))
                 s2  == [s3 EXCEPT !.cache = g.cache, !.metrics = g.metrics,
                                   !.inv.cache_key = key,
                                   !.log = Append(@, Ev("get", g.ret))]
             IN  IF g.ret # None
                 THEN Return([s2 EXCEPT !.metrics =
                                  Metrics_observe(@, "translation_latency_ms",
                                                  s2.clock - s2.inv.start_time)],
                             g.ret)
                 ELSE IF ~b.ret
                 THEN fallback_translation(s2)
                 ELSE call_llm_with_retry_wrapper(s2)

translate_command(st, user_input, context) ==
    LET s0 == [st EXCEPT !.inv.start_time = st.clock,
                         !.inv.entry_metrics = st.metrics,
                         !.log = <<Ev("translate_command", user_input \o ":" \o context)>>]
        rl == TokenBucket_allow_request(s0.bucket, s0.clock)
        s1 == [s0 EXCEPT !.bucket = rl.self,
                         !.log = Append(@, Ev("allow_request", Repr(rl.ret)))]
    IN  IF ~rl.ret
        THEN Return(s1, None)
        ELSE LET key == generate_cache_key(user_input, context)
                 g   == LRUCache_get(s1.cache, s1.metrics, cache_enabled, key, Now(s1))
                 s2  == [s1 EXCEPT !.cache = g.cache, !.metrics = g.metrics,
                                   !.inv.cache_key = key,
                                   !.log = Append(@, Ev("get", g.ret))]
             IN  IF g.ret # None
                 THEN Return([s2 EXCEPT !.metrics =
                                  Metrics_observe(@, "translation_latency_ms",
                                                  s2.clock - s2.inv.start_time)],
                             g.ret)
                 ELSE LET b  == CircuitBreaker_should_allow_request(s2.breaker, s2.metrics,
                                                                    Now(s2))
                          s3 == [s2 EXCEPT !.breaker = b.self, !.metrics = b.metrics,
                                           !.log = Append(@, Ev("should_allow_request",
                                                                Repr(b.ret)))]
                      IN  IF ~b.ret
                          THEN fallback_translation(s3)
                          ELSE call_llm_with_retry_wrapper(s3)

----------------------------------------------------------------------------
(* TaskQueue *)

\* the values of the priority argument of enqueue
Priorities == {0, 1}

\* a Task: its number in the order of the enqueue calls (for its id) and its
\* priority; seq is history: its number in the order of arrival in the queue
Task(id, priority) == [id |-> id, priority |-> priority, seq |-> 0]

NoTask == Task(0, 0)

\* (priority, task) < (priority, task) as the heap compares its items: the
\* priorities decide; on equal priorities the tasks, which are never equal
\* (their ids differ), are compared by Task.__lt__, which compares the
\* priorities again
ItemLess(a, b) == a.priority < b.priority

\* heapq._siftdown, the item newitem on its way up from position pos
RECURSIVE siftdown_loop(_, _, _, _)
siftdown_loop(heap, startpos, pos, newitem) ==
    IF pos > startpos /\ ItemLess(newitem, heap[pos \div 2])
    THEN siftdown_loop([heap EXCEPT ![pos] = heap[pos \div 2]], startpos, pos \div 2, newitem)
    ELSE [heap EXCEPT ![pos] = newitem]

heapq_siftdown(heap, startpos, pos) == siftdown_loop(heap, startpos, pos, heap[pos])

\* heapq._siftup: the smaller child moves up until a leaf is reached
RECURSIVE siftup_loop(_, _, _)
siftup_loop(heap, pos, newitem) ==
    LET childpos == 2 * pos
        rightpos == childpos + 1
        child    == IF rightpos <= Len(heap) /\ ~ItemLess(heap[childpos], heap[rightpos])
                    THEN rightpos ELSE childpos
    IN  IF childpos <= Len(heap)
        THEN siftup_loop([heap EXCEPT ![pos] = heap[child]], child, newitem)
        ELSE [heap |-> [heap EXCEPT ![pos] = newitem], pos |-> pos]

heapq_siftup(heap, pos) ==
    LET r == siftup_loop(heap, pos, heap[pos])
    IN  heapq_siftdown(r.heap, pos, r.pos)

\* PriorityQueue._put
heappush(heap, item) == heapq_siftdown(Append(heap, item), 1, Len(heap) + 1)

\* PriorityQueue._get
heappop(heap) ==
    LET lastelt == heap[Len(heap)]
        rest    == SubSeq(heap, 1, Len(heap) - 1)
    IN  IF rest # <<>>
        THEN [item |-> rest[1], heap |-> heapq_siftup([rest EXCEPT ![1] = lastelt], 1)]
        ELSE [item |-> lastelt, heap |-> <<>>]

\* asyncio.PriorityQueue.full(), maxsize being positive
PriorityQueue_full(queue) == Len(queue) >= task_queue_max_size

\* a worker task: where its coroutine stands ("new": created and not yet run,
\* "get": in queue.get, "run": in task.func, "done": finished), the task it
\* runs, whether cancel() was called on it, and (history) how the last task
\* it ran ended
Worker(pc) ==
    [pc |-> pc, task |-> NoTask, start_time |-> 0, cancel |-> FALSE, last |-> None]

TaskQueue_init == [running |-> FALSE, queue |-> <<>>, workers |-> <<>>]

TaskQueue_start(self) ==
    [self EXCEPT !.running = TRUE,
                 !.workers = [i \in 1 .. task_queue_workers |-> Worker("new")]]

\* worker.cancel() on each worker: a task that is done is left as it is
cancel_all(workers) ==
    [i \in DOMAIN workers |->
        IF workers[i].pc = "done" THEN workers[i] ELSE [workers[i] EXCEPT !.cancel = TRUE]]

\* stop up to its await: running = False and cancel() on every worker
TaskQueue_stop(self) ==
    [self EXCEPT !.running = FALSE, !.workers = cancel_all(@)]

gathered_any(workers) == \E i \in DOMAIN workers : workers[i].pc = "done"

\* asyncio.gather(*workers, return_exceptions=True) returns: every worker is done
gathered(workers) == \A i \in DOMAIN workers : workers[i].pc = "done"

\* enqueue from the moment queue.put finds a free slot: the item is pushed
\* and the task id returned
put_done(self, m, task) ==
    LET item == [task EXCEPT !.seq = m.counters["tasks_enqueued"] + 1]
        q2   == heappush(self.queue, item)
    IN  [self    |-> [self EXCEPT !.queue = q2],
         metrics |-> Metrics_set_gauge(Metrics_increment(m, "tasks_enqueued"),
                                       "queue_size", Len(q2)),
         ret     |-> "id"]

put_timeout_late(self, m, task) ==
    [self    |-> [self EXCEPT !.queue = heappush(@, task)],
     metrics |-> Metrics_increment(m, "tasks_rejected"),
     ret     |-> "TimeoutError"]

\* enqueue when wait_for gives up after 1.0 s: the put is cancelled and
\* TimeoutError raised
put_timeout(self, m, task) ==
    [self    |-> self,
     metrics |-> Metrics_increment(m, "tasks_rejected"),
     ret     |-> "TimeoutError"]

\* enqueue up to its return or up to the wait for a free slot
TaskQueue_enqueue(self, m, task) ==
    IF PriorityQueue_full(self.queue)
    THEN [self |-> self, metrics |-> m, ret |-> "wait"]
    ELSE put_done(self, m, task)

\* _worker at the head of its loop: while self.running
worker_loop(self, w) ==
    [self EXCEPT !.workers[w].pc = IF self.running THEN "get" ELSE "done",
                 !.workers[w].task = NoTask]

\* _worker from queue.get returning an item up to the call of task.func
worker_get(self, m, w, t) ==
    LET r == heappop(self.queue)
    IN  [self    |-> [self EXCEPT !.queue = r.heap,
                                  !.workers[w].pc = "run",
                                  !.workers[w].task = r.item,
                                  !.workers[w].start_time = t],
         metrics |-> Metrics_set_gauge(m, "queue_size", Len(r.heap))]

worker_result_fatal(self, m, w, outcome, t) ==
    IF outcome = "raise"
    THEN [self    |-> [self EXCEPT !.workers[w].pc = "done", !.workers[w].last = outcome],
          metrics |-> Metrics_increment(m, "tasks_failed")]
    ELSE [self    |-> worker_loop([self EXCEPT !.workers[w].last = outcome], w),
          metrics |-> Metrics_increment(
                          Metrics_observe(m, "task_duration_ms",
                                          t - self.workers[w].start_time),
                          "tasks_completed")]

\* _worker from the end of task.func, which returned or raised an Exception,
\* up to the next queue.get
worker_result(self, m, w, outcome, t) ==
    [self    |-> worker_loop([self EXCEPT !.workers[w].last = outcome], w),
     metrics |-> IF outcome = "raise"
                 THEN Metrics_increment(m, "tasks_failed")
                 ELSE Metrics_increment(
                          Metrics_observe(m, "task_duration_ms",
                                          t - self.workers[w].start_time),
                          "tasks_completed")]

\* the worker tasks in a list that have not ended
unfinished(workers) == SelectSeq(workers, LAMBDA w : w.pc # "done")

\* _worker at the head of its loop, for a worker task that self.workers no
\* longer holds: it reads the same self.running
orphan_loop(self, o) ==
    [o EXCEPT !.pc = IF self.running THEN "get" ELSE "done", !.task = NoTask]

\* CancelledError is thrown into the worker where it waits (or before it
\* first runs); no except clause of _worker catches it
worker_cancelled(self, w) ==
    [self EXCEPT !.workers[w].pc = "done"]

----------------------------------------------------------------------------
(* EnterpriseGPTShell: initialize and shutdown *)

BackgroundLoops == {"periodic_gc", "periodic_cache_cleanup", "health_check"}

\* the shell's position ("constructed", "running", then in shutdown
\* "stop_queue", "stop_background" and "down") and each background task's
\* ("none": not created, "new": created and not yet run, "sleep": in
\* asyncio.sleep, "cancelling": cancel() was called on it, "done")
Shell_init == [pc |-> "constructed", background |-> [l \in BackgroundLoops |-> "none"]]

\* initialize after task_queue.start(): the three loops are created
Shell_initialize(sh) ==
    [pc |-> "running", background |-> [l \in BackgroundLoops |-> "new"]]

\* shutdown up to the await inside task_queue.stop()
Shell_shutdown(sh) == [sh EXCEPT !.pc = "stop_queue"]

\* shutdown from the return of task_queue.stop(): cancel() on every
\* background task, up to the await of gather
Shell_cancel_background(sh) ==
    [pc         |-> "stop_background",
     background |-> [l \in BackgroundLoops |->
                        IF sh.background[l] = "done" THEN "done" ELSE "cancelling"]]

\* asyncio.gather(*self.background_tasks, return_exceptions=True) returns
background_gathered(sh) == \A l \in BackgroundLoops : sh.background[l] = "done"

----------------------------------------------------------------------------
(* The state after construction *)

NoCall == [op |-> "none", key |-> None, ret |-> None]

\* the calls since time last passed: whether the first of them found the
\* bucket full, and their return values in order
NoCalls(full) == [full |-> full, rets |-> <<>>]

\* no allow_request call was made yet: none admitted, none denied at any
\* clock reading
NoTally == [admitted |-> 0, denied |-> {}]

\* a configuration under which no delay has been computed yet
Backoff_init(config) ==
    [config |-> config, computed |-> FALSE, attempt |-> 0, delay |-> 0, jitter |-> 0]

\* the objects EnterpriseGPTShell.__init__ builds
Constructed ==
    /\ now = 0
    /\ clock = 0
    /\ bucket = TokenBucket_init(0)
    /\ since_tick = NoCalls(TRUE)
    /\ tally = NoTally
    /\ llm_model = PrimaryModel
    /\ req = [p \in Procs |-> Idle]
    /\ log = [p \in Procs |-> <<>>]
    /\ invocations = 0
    /\ breaker = CircuitBreaker_init(0)
    /\ cache_enabled \in BOOLEAN
    /\ cache = <<>>
    /\ metrics = Metrics_init
    /\ call = NoCall
    /\ run = 0
    /\ tripped = FALSE
    /\ episode = 0
    /\ touch = <<>>
    /\ fresh = TRUE

\* nothing has happened to any task yet
NoHistory == [id \in 1 .. MaxTasks |-> "none"]

QueueConstructed ==
    /\ task_queue = TaskQueue_init
    /\ putters = {}
    /\ lifecycle = "constructed"
    /\ task_hist = NoHistory
    /\ orphans = <<>>
    /\ shell = Shell_init

Init ==
    /\ Constructed
    /\ QueueConstructed
    /\ backoff = Backoff_init(RetryConfig)

breaker_vars == <<breaker, run, tripped, episode>>
cache_vars == <<cache, touch, fresh>>
limiter_vars == <<bucket, since_tick>>
service_vars == <<llm_model, req, log, invocations>>

\* what no method of the breaker, the cache, the bucket or the service assigns
queue_vars == <<task_queue, putters, lifecycle, task_hist, orphans, shell>>
other_vars == <<cache_enabled, backoff, tally, queue_vars>>

\* the bucket is full once the refill up to clock reading t is added
TokenBucket_full(self, t) ==
    self.tokens + (t - self.last_update) * rate_limit_requests_per_minute
        >= rate_limit_burst_size * TokenUnit

\* a second passes; nothing else happens
Elapse(limit) ==
    /\ now < limit
    /\ now' = now + 1
    /\ clock' = clock + TicksPerSecond
    /\ call' = [op |-> "tick", key |-> None, ret |-> None]
    /\ since_tick' = NoCalls(TokenBucket_full(bucket, clock'))
    /\ UNCHANGED <<other_vars, metrics, breaker_vars, cache_vars, bucket, service_vars>>

Tick == Elapse(MaxTime)

BreakerTick == Elapse(MaxBreakerTime)

----------------------------------------------------------------------------
(* One call of a CircuitBreaker method *)

Call_should_allow_request ==
    LET r == CircuitBreaker_should_allow_request(breaker, metrics, now)
    IN  /\ breaker' = r.self
        /\ metrics' = r.metrics
        /\ call' = [op |-> "should_allow_request", key |-> None, ret |-> Repr(r.ret)]
        /\ episode' = IF breaker.state # HALF_OPEN /\ r.self.state = HALF_OPEN
                      THEN 0 ELSE episode
        /\ UNCHANGED <<now, clock, other_vars, run, tripped, cache_vars, limiter_vars, service_vars>>

Call_record_success ==
    LET r == CircuitBreaker_record_success(breaker, metrics, now)
    IN  /\ breaker' = r.self
        /\ metrics' = r.metrics
        /\ call' = [op |-> "record_success", key |-> None, ret |-> None]
        /\ run' = 0
        /\ episode' = IF breaker.state = HALF_OPEN
                      THEN Min(episode + 1, circuit_breaker_success_threshold)
                      ELSE episode
        /\ UNCHANGED <<now, clock, other_vars, tripped, cache_vars, limiter_vars, service_vars>>

Call_record_failure ==
    LET r == CircuitBreaker_record_failure(breaker, metrics, now)
    IN  /\ breaker' = r.self
        /\ metrics' = r.metrics
        /\ call' = [op |-> "record_failure", key |-> None, ret |-> None]
        /\ run' = Min(run + 1, circuit_breaker_failure_threshold)
        /\ tripped' = (tripped \/ run + 1 >= circuit_breaker_failure_threshold)
        /\ UNCHANGED <<now, clock, other_vars, episode, cache_vars, limiter_vars, service_vars>>

NextBreaker ==
    \/ BreakerTick
    \/ Call_should_allow_request
    \/ Call_record_success
    \/ Call_record_failure

SpecBreaker == Init /\ [][NextBreaker]_vars

----------------------------------------------------------------------------
(* Properties of the CircuitBreaker, under SpecBreaker *)

Elapsed == now - breaker.last_failure_time

\* C1: after failure_threshold record_failure calls with no record_success
\* between them the state is OPEN; while OPEN, last_failure_time is set and a
\* should_allow_request call made less than recovery_timeout after it returns
\* false and changes nothing.
C1_OpensAndDenies ==
    /\ (call.op = "record_failure" /\ run >= circuit_breaker_failure_threshold)
            => breaker.state = OPEN
    /\ breaker.state = OPEN => breaker.last_failure_time # NoTime
    /\ (breaker.state = OPEN /\ Elapsed < circuit_breaker_recovery_timeout)
            => LET r == CircuitBreaker_should_allow_request(breaker, metrics, now)
               IN  r.ret = FALSE /\ r.self = breaker /\ r.metrics = metrics

\* the threshold was reached by failures alone and a request was then denied
C1_Witness ==
    /\ call.op = "should_allow_request"
    /\ call.ret = "False"
    /\ breaker.state = OPEN
    /\ run = circuit_breaker_failure_threshold
    /\ breaker.failure_count = circuit_breaker_failure_threshold

\* C2: the passage of time alone never changes the breaker; a
\* should_allow_request call made while OPEN, recovery_timeout or more after
\* last_failure_time, returns true and leaves the breaker HALF_OPEN.
C2_LazyHalfOpen ==
    /\ [][now' # now => breaker' = breaker]_vars
    /\ [][(call'.op = "should_allow_request" /\ breaker.state = OPEN
            /\ Elapsed >= circuit_breaker_recovery_timeout)
          => (call'.ret = "True" /\ breaker'.state = HALF_OPEN)]_vars
    /\ [][(breaker.state = OPEN /\ breaker'.state = HALF_OPEN)
          => (call'.op = "should_allow_request"
              /\ Elapsed >= circuit_breaker_recovery_timeout)]_vars

\* the breaker stayed OPEN past the timeout and the check then admitted a probe
C2_Witness ==
    /\ call.op = "should_allow_request"
    /\ call.ret = "True"
    /\ breaker.state = HALF_OPEN
    /\ breaker.last_state_change = now
    /\ Elapsed > circuit_breaker_recovery_timeout

\* C3: while HALF_OPEN, success_count is the number of record_success calls
\* since this HALF_OPEN episode began (0 on entry) and is below
\* success_threshold; the record_success that makes it reach success_threshold
\* moves the breaker to CLOSED, an earlier one leaves it HALF_OPEN.
C3_HalfOpenSuccesses ==
    breaker.state = HALF_OPEN =>
        LET r == CircuitBreaker_record_success(breaker, metrics, now).self
        IN  /\ breaker.success_count = episode
            /\ episode < circuit_breaker_success_threshold
            /\ r.state = IF episode + 1 = circuit_breaker_success_threshold
                         THEN CLOSED ELSE HALF_OPEN

\* a second HALF_OPEN episode was entered after successes counted in an earlier one
C3_Witness ==
    /\ call.op = "should_allow_request"
    /\ breaker.state = HALF_OPEN
    /\ breaker.last_state_change = now
    /\ breaker.success_count = 0
    /\ breaker.last_failure_time > 0
    /\ breaker.failure_count = circuit_breaker_failure_threshold
    /\ run = 1

\* C4: record_failure while HALF_OPEN, whatever success_count is, moves the
\* breaker to OPEN with last_failure_time = now, so that should_allow_request
\* is false at every time less than recovery_timeout later.
C4_HalfOpenFailure ==
    breaker.state = HALF_OPEN =>
        LET r == CircuitBreaker_record_failure(breaker, metrics, now)
        IN  /\ r.self.state = OPEN
            /\ r.self.last_failure_time = now
            /\ \A d \in 0 .. (circuit_breaker_recovery_timeout - 1) :
                  CircuitBreaker_should_allow_request(r.self, r.metrics, now + d).ret = FALSE

\* a failure arrived in HALF_OPEN after a success had been counted
C4_Witness ==
    /\ call.op = "record_failure"
    /\ breaker.state = OPEN
    /\ breaker.success_count > 0
    /\ breaker.last_failure_time = now
    /\ breaker.last_state_change = now

\* C5: while CLOSED, failure_count is the number of failures since the last
\* success and is below failure_threshold; record_success resets it to 0 and
\* record_failure opens the breaker exactly when it is the failure_threshold-th
\* failure in a row; as long as no such run has occurred the breaker is CLOSED.
C5_SuccessForgives ==
    /\ breaker.state = CLOSED =>
        /\ breaker.failure_count = run
        /\ run < circuit_breaker_failure_threshold
        /\ CircuitBreaker_record_success(breaker, metrics, now).self
               = [breaker EXCEPT !.failure_count = 0]
        /\ CircuitBreaker_record_failure(breaker, metrics, now).self.state
               = IF run + 1 = circuit_breaker_failure_threshold THEN OPEN ELSE CLOSED
    /\ ~tripped => breaker.state = CLOSED

\* failures were recorded, a success forgave them, and the breaker never opened
C5_Witness ==
    /\ call.op = "record_success"
    /\ breaker.state = CLOSED
    /\ breaker.failure_count = 0
    /\ breaker.last_failure_time # NoTime
    /\ ~tripped

\* C27: when record_failure in CLOSED reaches failure_threshold and the
\* breaker goes to OPEN, that transition leaves failure_count and
\* success_count both 0.
C27_OpenZeroesCounters ==
    LET r == CircuitBreaker_record_failure(breaker, metrics, now)
    IN  (breaker.state = CLOSED /\ r.self.state = OPEN)
            => /\ r.self.failure_count = 0
               /\ r.self.success_count = 0

\* the code the claim gives each state, in tenths: CLOSED 0, HALF_OPEN 0.5, OPEN 1
StateCode(s) ==
    IF s = OPEN THEN 10 ELSE IF s = HALF_OPEN THEN 5 ELSE 0

\* C28: every change of state sets the circuit_breaker_state gauge to the
\* code of the new state; once the gauge has been set at all it is the code
\* of the current state.
C28_GaugeFollowsState ==
    /\ [][breaker'.state # breaker.state
            => metrics'.gauges["circuit_breaker_state"] = StateCode(breaker'.state)]_vars
    /\ [](metrics.gauges["circuit_breaker_state"] # NoGauge
            => metrics.gauges["circuit_breaker_state"] = StateCode(breaker.state))

\* the breaker has opened, probed and closed again: the gauge is back at 0
C28_Witness ==
    /\ call.op = "record_success"
    /\ breaker.state = CLOSED
    /\ breaker.last_failure_time # NoTime
    /\ metrics.gauges["circuit_breaker_state"] = GAUGE_CLOSED

\* C34: while the breaker is OPEN, record_success changes nothing, and
\* record_failure changes last_failure_time, which becomes the time of the
\* call, and nothing else: state, counters and last_state_change stay; the
\* recovery timeout then runs from that failure, so should_allow_request
\* denies until recovery_timeout after it and admits the probe from then on.
C34_LateFailurePostponesProbe ==
    breaker.state = OPEN =>
        LET s == CircuitBreaker_record_success(breaker, metrics, now)
            f == CircuitBreaker_record_failure(breaker, metrics, now)
        IN  /\ s.self = breaker
            /\ s.metrics = metrics
            /\ f.self = [breaker EXCEPT !.last_failure_time = now]
            /\ f.metrics = metrics
            /\ \A d \in 0 .. circuit_breaker_recovery_timeout + 1 :
                   LET a == CircuitBreaker_should_allow_request(f.self, f.metrics, now + d)
                   IN  /\ a.ret = (d >= circuit_breaker_recovery_timeout)
                       /\ a.self.state = IF a.ret THEN HALF_OPEN ELSE OPEN

\* a failure was recorded after the breaker had opened, and a request was
\* then denied although recovery_timeout had passed since the breaker opened
C34_Witness ==
    /\ breaker.state = OPEN
    /\ breaker.last_failure_time > breaker.last_state_change
    /\ now - breaker.last_state_change >= circuit_breaker_recovery_timeout
    /\ call.op = "should_allow_request"
    /\ call.ret = "False"

----------------------------------------------------------------------------
(* One call of an LRUCache method *)

\* the counters grow without bound: a call is modelled while the cache's
\* counters sum to at most MaxCount
CountersWithin(m) ==
    m.counters["cache_miss"] + m.counters["cache_hit"]
        + m.counters["cache_expired"] + m.counters["cache_eviction"] <= MaxCount

Get(k) ==
    LET r == LRUCache_get(cache, metrics, cache_enabled, k, now)
    IN  /\ CountersWithin(r.metrics)
        /\ cache' = r.cache
        /\ metrics' = r.metrics
        /\ call' = [op |-> "get", key |-> k, ret |-> r.ret]
        /\ UNCHANGED <<now, clock, other_vars, breaker_vars, limiter_vars, service_vars>>

Set(k, v, ttl_arg) ==
    LET r == LRUCache_set(cache, metrics, cache_enabled, k, v, ttl_arg, now)
    IN  /\ CountersWithin(r.metrics)
        /\ cache' = r.cache
        /\ metrics' = r.metrics
        /\ call' = [op |-> "set", key |-> k, ret |-> None]
        /\ UNCHANGED <<now, clock, other_vars, breaker_vars, limiter_vars, service_vars>>

Clear ==
    LET r == LRUCache_clear(cache, metrics)
    IN  /\ cache' = r.cache
        /\ metrics' = r.metrics
        /\ call' = [op |-> "clear", key |-> None, ret |-> None]
        /\ UNCHANGED <<now, clock, other_vars, breaker_vars, limiter_vars, service_vars>>

CleanupExpired ==
    LET r == LRUCache_cleanup_expired(cache, metrics, now)
    IN  /\ cache' = r.cache
        /\ metrics' = r.metrics
        /\ call' = [op |-> "cleanup_expired", key |-> None, ret |-> None]
        /\ UNCHANGED <<now, clock, other_vars, breaker_vars, limiter_vars, service_vars>>

(* The cache under any calls, with time passing and entries expiring *)

Call_get(k) == Get(k) /\ UNCHANGED <<touch, fresh>>

Call_set(k, v, ttl_arg) == Set(k, v, ttl_arg) /\ UNCHANGED <<touch, fresh>>

Call_clear == Clear /\ UNCHANGED <<touch, fresh>>

Call_cleanup_expired == CleanupExpired /\ UNCHANGED <<touch, fresh>>

NextCache ==
    \/ Tick
    \/ \E k \in Keys : Call_get(k)
    \/ \E k \in Keys, a \in SetArgs : Call_set(k, a[1], a[2])
    \/ Call_clear
    \/ Call_cleanup_expired

SpecCache == Init /\ [][NextCache]_vars

(* The cache's order of use, with the history of touches: no time passes,   *)
(* so no entry expires                                                      *)

Lru_get(k) ==
    /\ Get(k)
    /\ touch' = IF call'.ret # None THEN Append(Remove(touch, k), k) ELSE touch
    /\ UNCHANGED fresh

Lru_set(k, v) ==
    /\ Set(k, v, NoTtl)
    /\ touch' = IF cache_enabled THEN Append(Remove(touch, k), k) ELSE touch
    /\ fresh' = (fresh /\ k \notin Range(touch))

Lru_clear ==
    /\ Clear
    /\ fresh' = FALSE
    /\ UNCHANGED touch

NextLru ==
    \/ \E k \in LruKeys : Lru_get(k)
    \/ \E k \in LruKeys, v \in Values : Lru_set(k, v)
    \/ Lru_clear

SpecLru == Init /\ [][NextLru]_vars

----------------------------------------------------------------------------
(* Properties of the LRUCache *)

KeySeq(c) == [i \in DOMAIN c |-> c[i].key]

EntryOf(c, k) == c[IndexOf(c, k)].entry

\* the last n elements of q (all of q when it is shorter)
LastN(q, n) == IF Len(q) <= n THEN q ELSE SubSeq(q, Len(q) - n + 1, Len(q))

\* C6: the number of stored entries never exceeds cache_max_size.
C6_SizeWithinCapacity ==
    Len(cache) <= cache_max_size

\* a set on a full cache evicted an entry and the cache is full again
C6_Witness ==
    /\ call.op = "set"
    /\ Len(cache) = cache_max_size
    /\ metrics.counters["cache_eviction"] >= 1

\* C7: once more than cache_max_size distinct keys were inserted, each set
\* once, with gets in between and nothing expired or cleared, the keys a get
\* returns a value for are exactly the cache_max_size most recently touched
\* ones (touched: set, or hit by a get); every other inserted key is a miss.
C7_MostRecentRetrievable ==
    (cache_enabled /\ fresh /\ Len(touch) > cache_max_size) =>
        \A k \in Range(touch) :
            (LRUCache_get(cache, metrics, cache_enabled, k, now).ret # None)
                <=> (k \in Range(LastN(touch, cache_max_size)))

\* capacity + 1 distinct keys were inserted with a get hit in between, and the
\* last set evicted an entry
C7_Witness ==
    /\ fresh
    /\ call.op = "set"
    /\ Len(touch) = cache_max_size + 1
    /\ metrics.counters["cache_hit"] >= 1
    /\ metrics.counters["cache_eviction"] = 1
    /\ Len(cache) = cache_max_size

\* C8: the stored order is the order of last use, where a get hit and every
\* set (of a new or of a present key) is a use; the entry a set evicts is then
\* the least recently used one.
C8_OrderIsRecency ==
    cache_enabled =>
        KeySeq(cache) = SelectSeq(touch, LAMBDA k : k \in KeysOf(cache))

\* the stored keys in the order of their last use, least recent first
Recency == SelectSeq(touch, LAMBDA k : k \in KeysOf(cache))

\* C29: set checks the capacity before it inserts: on a cache holding
\* cache_max_size entries it removes the single least recently used entry and
\* then inserts, also when the incoming key is already stored; below capacity
\* it removes nothing; cache_eviction grows by one exactly when set removed
\* an entry.
C29_EvictBeforeInsert ==
    cache_enabled =>
        \A k \in LruKeys, v \in Values :
            LET r       == LRUCache_set(cache, metrics, cache_enabled, k, v, NoTtl, now)
                evicted == r.metrics.counters["cache_eviction"]
                               - metrics.counters["cache_eviction"]
            IN  IF Len(cache) >= cache_max_size
                THEN /\ KeysOf(r.cache) = (KeysOf(cache) \ {Recency[1]}) \cup {k}
                     /\ evicted = 1
                ELSE /\ KeysOf(r.cache) = KeysOf(cache) \cup {k}
                     /\ evicted = 0

\* C9: with the cache enabled, get(key) on an absent key returns None, counts
\* cache_miss and changes nothing else; on an entry of age >= ttl it returns
\* None, removes that entry alone and counts cache_expired (not cache_miss);
\* on a live entry it returns the entry's value and counts cache_hit.
C9_GetOutcomes ==
    cache_enabled =>
        \A k \in Keys :
            LET r == LRUCache_get(cache, metrics, cache_enabled, k, now)
            IN  IF k \notin KeysOf(cache)
                THEN /\ r.ret = None
                     /\ r.cache = cache
                     /\ r.metrics = Metrics_increment(metrics, "cache_miss")
                ELSE IF now - EntryOf(cache, k).timestamp >= EntryOf(cache, k).ttl
                THEN /\ r.ret = None
                     /\ k \notin KeysOf(r.cache)
                     /\ r.cache = SelectSeq(cache, LAMBDA item : item.key # k)
                     /\ r.metrics = Metrics_increment(metrics, "cache_expired")
                ELSE /\ r.ret = EntryOf(cache, k).value
                     /\ KeysOf(r.cache) = KeysOf(cache)
                     /\ r.metrics = Metrics_increment(metrics, "cache_hit")

\* a get found its entry expired and removed it, leaving another entry stored
C9_Witness ==
    /\ cache_enabled
    /\ call.op = "get"
    /\ call.ret = None
    /\ call.key \notin KeysOf(cache)
    /\ metrics.counters["cache_expired"] = 1
    /\ metrics.counters["cache_miss"] = 0
    /\ Len(cache) = 1

\* C10: with cache_enabled false the cache stays empty and its counters at 0;
\* and on any cache contents and metrics, a get with cache_enabled false
\* returns None and a set changes neither the entries nor the metrics.
C10_DisabledNoOp ==
    /\ ~cache_enabled =>
        /\ cache = <<>>
        /\ \A c \in CounterNames : metrics.counters[c] = 0
    /\ \A k \in Keys, v \in Values, ttl_arg \in TtlArgs :
        LET g == LRUCache_get(cache, metrics, FALSE, k, now)
            w == LRUCache_set(cache, metrics, FALSE, k, v, ttl_arg, now)
        IN  /\ g.ret = None
            /\ g.cache = cache
            /\ g.metrics = metrics
            /\ w.cache = cache
            /\ w.metrics = metrics

\* set was called on the disabled cache
C10_Witness ==
    /\ ~cache_enabled
    /\ call.op = "set"
    /\ cache = <<>>
    /\ metrics.gauges["cache_size"] = NoGauge

----------------------------------------------------------------------------
(* One call of TokenBucket.allow_request, with time passing tick by tick *)

BucketTick ==
    /\ clock < MaxBucketTime
    /\ clock' = clock + 1
    /\ now' = clock' \div TicksPerSecond
    /\ call' = [op |-> "tick", key |-> None, ret |-> None]
    /\ since_tick' = NoCalls(TokenBucket_full(bucket, clock'))
    /\ UNCHANGED <<other_vars, metrics, breaker_vars, cache_vars, bucket, service_vars>>

Call_allow_request ==
    LET r == TokenBucket_allow_request(bucket, clock)
    IN  /\ Len(since_tick.rets) < rate_limit_burst_size + MaxDenied
        /\ bucket' = r.self
        /\ call' = [op |-> "allow_request", key |-> None, ret |-> Repr(r.ret)]
        /\ since_tick' = [since_tick EXCEPT !.rets = Append(@, r.ret)]
        /\ tally' = IF r.ret
                    THEN [tally EXCEPT !.admitted = @ + 1]
                    ELSE [tally EXCEPT !.denied = @ \cup {clock}]
        /\ UNCHANGED <<now, clock, cache_enabled, backoff, queue_vars, metrics,
                       breaker_vars, cache_vars, service_vars>>

NextBucket ==
    \/ BucketTick
    \/ Call_allow_request

SpecBucket == Init /\ [][NextBucket]_vars

----------------------------------------------------------------------------
(* Properties of the TokenBucket, under SpecBucket *)

\* n calls of allow_request one after the other at clock reading t
RECURSIVE Calls(_, _, _)
Calls(self, t, n) ==
    IF n = 0
    THEN [self |-> self, rets |-> <<>>]
    ELSE LET p == Calls(self, t, n - 1)
             r == TokenBucket_allow_request(p.self, t)
         IN  [self |-> r.self, rets |-> Append(p.rets, r.ret)]

\* g times true, then false up to length n
GrantsThenDenials(g, n) == [i \in 1 .. n |-> i <= g]

\* 1/refill_rate seconds, in ticks
RefillWait == TokenUnit \div rate_limit_requests_per_minute

\* C11: at every observation point, and after an allow_request call made any
\* time later, 0 <= tokens <= burst capacity.
C11_TokensWithinBurst ==
    /\ 0 <= bucket.tokens
    /\ bucket.tokens <= rate_limit_burst_size * TokenUnit
    /\ \A d \in 0 .. MaxBucketTime :
          LET r == TokenBucket_allow_request(bucket, clock + d)
          IN  /\ 0 <= r.self.tokens
              /\ r.self.tokens <= rate_limit_burst_size * TokenUnit

\* more time passed than the bucket needed to be full again, and the next call
\* was granted from a bucket capped at the burst size
C11_Witness ==
    /\ call.op = "allow_request"
    /\ since_tick.full
    /\ since_tick.rets = <<TRUE>>
    /\ bucket.last_update > RefillWait
    /\ bucket.tokens = (rate_limit_burst_size - 1) * TokenUnit

\* C12: from a full bucket of burst size B, B + m calls with no time passing
\* return true B times and then false m times; a denied call subtracts
\* nothing; and after a wait of 1/refill_rate seconds one more call returns
\* true and the call after it false.
C12_BurstThenRefill ==
    /\ since_tick.full =>
          since_tick.rets = GrantsThenDenials(rate_limit_burst_size, Len(since_tick.rets))
    /\ LET r == TokenBucket_allow_request(bucket, clock)
       IN  ~r.ret => r.self.tokens = Min(rate_limit_burst_size * TokenUnit,
                        bucket.tokens
                          + (clock - bucket.last_update) * rate_limit_requests_per_minute)
    /\ TokenBucket_full(bucket, clock) =>
          \A m \in 0 .. MaxDenied :
              LET a == Calls(bucket, clock, rate_limit_burst_size + m)
              IN  /\ a.rets = GrantsThenDenials(rate_limit_burst_size,
                                                rate_limit_burst_size + m)
                  /\ a.self.tokens = 0
                  /\ Calls(a.self, clock + RefillWait, 2).rets = <<TRUE, FALSE>>

\* a full bucket, refilled after earlier use, granted its burst and then
\* denied MaxDenied calls
C12_Witness ==
    /\ since_tick.full
    /\ since_tick.rets = GrantsThenDenials(rate_limit_burst_size,
                                           rate_limit_burst_size + MaxDenied)
    /\ bucket.last_update > 0
    /\ bucket.tokens = 0

\* C37: counted from construction, when the bucket is full, the calls
\* admitted by clock reading T are at most burst_size + refill_rate * T, and
\* the tokens handed out and those still in the bucket together never exceed
\* the burst plus the refill up to the last call; and a denied call keeps the
\* refill it added: every later call is answered, and leaves the bucket, as if
\* the denied call had not been made.
C37_RateBound ==
    /\ tally.admitted * TokenUnit
          <= rate_limit_burst_size * TokenUnit + clock * rate_limit_requests_per_minute
    /\ tally.admitted * TokenUnit + bucket.tokens
          <= rate_limit_burst_size * TokenUnit
               + bucket.last_update * rate_limit_requests_per_minute
    /\ LET r == TokenBucket_allow_request(bucket, clock)
       IN  ~r.ret =>
               \A d \in 0 .. MaxBucketTime :
                   TokenBucket_allow_request(r.self, clock + d)
                       = TokenBucket_allow_request(bucket, clock + d)

\* the burst was used up, a call was denied when part of a token had been
\* refilled, and the call made 1/refill_rate after construction was admitted:
\* the bound is met exactly
C37_Witness ==
    /\ call.op = "allow_request"
    /\ call.ret = "True"
    /\ clock = RefillWait
    /\ \E t \in tally.denied : 0 < t /\ t < clock
    /\ tally.admitted = rate_limit_burst_size + 1
    /\ tally.admitted * TokenUnit
          = rate_limit_burst_size * TokenUnit + clock * rate_limit_requests_per_minute

----------------------------------------------------------------------------
(* translate_command called by the shell's loop, one invocation at a time, *)
(* with the providers answering in any way; time passes between the        *)
(* invocations and in the backoff sleeps                                   *)

\* the service as invocation p sees it
Service(p) ==
    [bucket    |-> bucket,
     cache     |-> cache,
     breaker   |-> breaker,
     metrics   |-> metrics,
     llm_model |-> llm_model,
     clock     |-> clock,
     inv       |-> req[p],
     log       |-> log[p]]

\* invocation p has run up to its next suspension point and left the service as st
Becomes(p, st, op) ==
    /\ bucket' = st.bucket
    /\ cache' = st.cache
    /\ breaker' = st.breaker
    /\ metrics' = st.metrics
    /\ llm_model' = st.llm_model
    /\ clock' = st.clock
    /\ now' = Now(st)
    /\ req' = [req EXCEPT ![p] = st.inv]
    /\ log' = [log EXCEPT ![p] = st.log]
    /\ call' = [op |-> op, key |-> None, ret |-> None]
    /\ UNCHANGED <<other_vars, run, tripped, episode, touch, fresh>>

Translate(p, user_input, context) ==
    LET st == translate_command(Service(p), user_input, context)
    IN  /\ req[p].pc = "idle"
        /\ invocations < MaxRequests
        /\ invocations' = invocations + 1
        /\ since_tick' = [since_tick EXCEPT
                              !.rets = Append(@, Ev("allow_request", "True") \in Range(st.log))]
        /\ Becomes(p, st, "translate_command")

PrimaryReturns(p, outcome) ==
    /\ req[p].pc = "primary"
    /\ Becomes(p, primary_result(Service(p), outcome), "primary_result")
    /\ UNCHANGED <<since_tick, invocations>>

SleepReturns(p, jitter) ==
    LET st == sleep_done(Service(p), jitter)
    IN  /\ req[p].pc = "sleep"
        /\ Now(st) <= MaxTranslateTime
        /\ Becomes(p, st, "sleep_done")
        /\ since_tick' = NoCalls(TokenBucket_full(bucket, st.clock))
        /\ UNCHANGED invocations

FallbackReturns(p, outcome) ==
    /\ req[p].pc = "fallback"
    /\ Becomes(p, fallback_result(Service(p), outcome), "fallback_result")
    /\ UNCHANGED <<since_tick, invocations>>

TranslateTick ==
    /\ \A p \in Procs : req[p].pc = "idle"
    /\ Elapse(MaxTranslateTime)

NextTranslate ==
    \/ TranslateTick
    \/ \E rq \in Requests : Translate("p1", rq[1], rq[2])
    \/ \E outcome \in Outcomes : PrimaryReturns("p1", outcome)
    \/ \E jitter \in Jitter(req["p1"].delay) : SleepReturns("p1", jitter)
    \/ \E outcome \in FallbackOutcomes : FallbackReturns("p1", outcome)

SpecTranslate == Init /\ [][NextTranslate]_vars

----------------------------------------------------------------------------
(* Properties of the retry loop (_call_llm_with_retry_wrapper), read off   *)
(* the history of each invocation, under SpecTranslate                     *)

Has(L, e) == \E i \in DOMAIN L : L[i].ev = e

Count(L, e) == Cardinality({i \in DOMAIN L : L[i].ev = e})

\* the results of the events named e, in order
ArgsOf(L, e) == LET q == SelectSeq(L, LAMBDA x : x.ev = e)
                IN  [i \in DOMAIN q |-> q[i].arg]

\* the invocation has returned
Done(L) == L # <<>> /\ L[Len(L)].ev = "return"

\* the value returned, once Done
Returned(L) == L[Len(L)].arg

\* the 0-based number of the attempt whose result is entry i of L
AttemptOf(L, i) ==
    Cardinality({j \in 1 .. i : L[j].ev = "primary_result"}) - 1

\* the wrapper has returned or raised
WrapperDone(L) == Has(L, "wrapper_return") \/ Has(L, "wrapper_raise")

\* C13: the provider is called at most retry_max_attempts times; every attempt
\* before the last one failed; an attempt that does not fail ends the loop and
\* its result is what the wrapper returns; the wrapper raises only after
\* retry_max_attempts failed attempts, and raises the error of the last one.
C13_RetryContract ==
    \A p \in Procs :
        LET L == log[p]
            results == ArgsOf(L, "primary_result")
            n == Len(results)
        IN  /\ Count(L, "primary_call") <= retry_max_attempts
            /\ \A i \in 1 .. n - 1 : results[i] \in Errors
            /\ (n > 0 /\ results[n] \notin Errors) =>
                   ArgsOf(L, "wrapper_return") = <<results[n]>>
            /\ Has(L, "wrapper_return") =>
                   (n > 0 /\ results[n] \notin Errors /\ ~Has(L, "wrapper_raise"))
            /\ (n = retry_max_attempts /\ results[n] \in Errors) =>
                   ArgsOf(L, "wrapper_raise") = <<results[n]>>
            /\ Has(L, "wrapper_raise") =>
                   (n = retry_max_attempts /\ results[n] \in Errors)

\* retry_max_attempts - 1 attempts failed, with different errors, and the last
\* attempt's result was returned
C13_Witness ==
    LET L == log["p1"]
        results == ArgsOf(L, "primary_result")
    IN  /\ Done(L)
        /\ Len(results) = retry_max_attempts
        /\ results[1] # results[2]
        /\ results[retry_max_attempts] = "v1"
        /\ Returned(L) = "v1"
        /\ metrics.counters["retry_success"] = 1

\* C14: a backoff delay comes only between two attempts: it directly follows
\* a failed attempt and is directly followed by the next attempt; a failed
\* attempt other than the last possible one is followed by exactly one delay
\* and the last possible one by the raise; every attempt but the first comes
\* directly after a delay; a finished run of f failed attempts has made
\* min(f, retry_max_attempts - 1) delays, each of which took its time.
C14_DelaysBetweenAttempts ==
    \A p \in Procs :
        LET L == log[p]
            failed == {i \in DOMAIN L : L[i].ev = "primary_result" /\ L[i].arg \in Errors}
            calls == {i \in DOMAIN L : L[i].ev = "primary_call"}
        IN  /\ \A i \in DOMAIN L : L[i].ev = "sleep" =>
                   /\ i - 1 \in failed
                   /\ i < Len(L) => L[i + 1].ev = "primary_call"
                   /\ i = Len(L) => req[p].pc = "sleep"
            /\ \A i \in failed :
                   /\ i < Len(L)
                   /\ L[i + 1].ev = IF AttemptOf(L, i) < retry_max_attempts - 1
                                    THEN "sleep" ELSE "wrapper_raise"
            /\ \A i \in calls :
                   (\E j \in calls : j < i) => L[i - 1].ev = "sleep"
            /\ WrapperDone(L) =>
                   Count(L, "sleep") = Min(Cardinality(failed), retry_max_attempts - 1)
            /\ (Done(L) /\ Has(L, "primary_call")) =>
                   LET h == metrics.histograms["translation_latency_ms"]
                       d == Count(L, "sleep")
                   IN  (d > 0 /\ Has(L, "wrapper_return")) =>
                           h[Len(h)] >= TicksPerSecond * retry_base_delay * d

\* every attempt failed: there were retry_max_attempts - 1 delays and the last
\* failure was followed by the raise
C14_Witness ==
    LET L == log["p1"]
    IN  /\ Has(L, "wrapper_raise")
        /\ Count(L, "primary_result") = retry_max_attempts
        /\ Count(L, "sleep") = retry_max_attempts - 1
        /\ metrics.counters["retry_exhausted"] = 1
        /\ metrics.counters["retry_attempt"] = retry_max_attempts - 1

\* C15: a provider call that ends in no result is treated by the retry loop as
\* a failed attempt: while attempts remain it is followed by a delay and a
\* further attempt, and as the last possible attempt by the raise.
C15_NoResultRetried ==
    \A p \in Procs :
        LET L == log[p]
        IN  \A i \in DOMAIN L :
                (L[i].ev = "primary_result" /\ L[i].arg = None) =>
                    /\ i < Len(L)
                    /\ L[i + 1].ev = IF AttemptOf(L, i) < retry_max_attempts - 1
                                     THEN "sleep" ELSE "wrapper_raise"

----------------------------------------------------------------------------
(* Properties of translate_command, under SpecTranslate *)

\* the history of an invocation the rate limiter turned away
DeniedLog(rq) ==
    <<Ev("translate_command", rq[1] \o ":" \o rq[2]),
      Ev("allow_request", "False"),
      Ev("return", None)>>

\* key is stored and has not reached its ttl at time t
Live(c, key, t) ==
    /\ key \in KeysOf(c)
    /\ t - EntryOf(c, key).timestamp < EntryOf(c, key).ttl

\* q is a prefix of r
IsPrefix(q, r) ==
    /\ Len(q) <= Len(r)
    /\ \A i \in DOMAIN q : q[i] = r[i]

\* C16: a translate_command call that the rate limiter denies returns None
\* at once, with no cache lookup, no breaker call and no provider call, and
\* leaves the cache (entries and order), the breaker (state, counters,
\* timestamps), the metrics and config.llm_model as they were.
C16_DeniedTouchesNothing ==
    \A p \in Procs, rq \in Requests :
        LET st == translate_command(Service(p), rq[1], rq[2])
        IN  (req[p].pc = "idle" /\ ~TokenBucket_allow_request(bucket, clock).ret) =>
                /\ st.inv = Idle
                /\ st.log = DeniedLog(rq)
                /\ st.cache = cache
                /\ st.breaker = breaker
                /\ st.metrics = metrics
                /\ st.llm_model = llm_model

\* a call was denied while the cache held an entry and the breaker had counted
\* a failure
C16_Witness ==
    /\ log["p1"] \in {DeniedLog(rq) : rq \in Requests}
    /\ call.op = "translate_command"
    /\ cache # <<>>
    /\ breaker.failure_count > 0
    /\ bucket.tokens < TokenUnit

\* C17: a translate_command whose primary call succeeded has stored its
\* result under the key of (user_input, context); and a call that the rate
\* limiter admits while the entry of its key is stored and younger than its
\* ttl returns the entry's value at once, with no provider call and without
\* calling should_allow_request, record_success or record_failure.
C17_CachedNoProvider ==
    /\ \A p \in Procs :
          LET L == log[p]
          IN  (cache_enabled /\ Done(L) /\ Has(L, "wrapper_return")
                 /\ Returned(L) \in Responses) =>
                  /\ L[1].arg \in KeysOf(cache)
                  /\ EntryOf(cache, L[1].arg).value = Returned(L)
                  /\ EntryOf(cache, L[1].arg).ttl = cache_ttl
    /\ \A p \in Procs, rq \in Requests :
          LET st  == translate_command(Service(p), rq[1], rq[2])
              key == generate_cache_key(rq[1], rq[2])
          IN  (req[p].pc = "idle" /\ TokenBucket_allow_request(bucket, clock).ret
                 /\ Live(cache, key, now)) =>
                  /\ st.inv = Idle
                  /\ Returned(st.log) = EntryOf(cache, key).value
                  /\ ~Has(st.log, "primary_call")
                  /\ ~Has(st.log, "fallback_call")
                  /\ ~Has(st.log, "should_allow_request")
                  /\ ~Has(st.log, "record_success")
                  /\ ~Has(st.log, "record_failure")
                  /\ st.breaker = breaker

\* the second of two calls with the same arguments was answered from the cache
C17_Witness ==
    LET L == log["p1"]
    IN  /\ Done(L)
        /\ Has(L, "get")
        /\ Returned(L) = "v1"
        /\ ArgsOf(L, "get") = <<"v1">>
        /\ metrics.counters["cache_hit"] = 1
        /\ metrics.counters["translations_total"] = 1
        /\ EntryOf(cache, L[1].arg).value = "v1"

\* C18: when should_allow_request denies (the breaker is OPEN and the
\* recovery timeout has not passed) after a cache miss, the primary provider
\* is not called; the fallback models are called in the configured order,
\* each after the one before it failed; the first result of a fallback model
\* ends the chain and is returned.
C18_OpenUsesFallbacks ==
    /\ \A p \in Procs :
          LET L == log[p]
              models == ArgsOf(L, "fallback_call")
              results == ArgsOf(L, "fallback_result")
          IN  Ev("should_allow_request", "False") \in Range(L) =>
                  /\ ~Has(L, "primary_call")
                  /\ Has(L, "fallback_translation")
                  /\ IsPrefix(models, fallback_models)
                  /\ \A i \in 1 .. Len(results) - 1 : results[i] \notin Responses
                  /\ Done(L) =>
                        /\ Len(results) = Len(models)
                        /\ Returned(L) = IF results[Len(results)] \in Responses
                                         THEN results[Len(results)]
                                         ELSE Degraded
                        /\ Returned(L) = Degraded => Len(models) = Len(fallback_models)
    /\ \A p \in Procs, rq \in Requests :
          LET st  == translate_command(Service(p), rq[1], rq[2])
              key == generate_cache_key(rq[1], rq[2])
          IN  (req[p].pc = "idle" /\ TokenBucket_allow_request(bucket, clock).ret
                 /\ ~Live(cache, key, now)
                 /\ breaker.state = OPEN
                 /\ now - breaker.last_failure_time < circuit_breaker_recovery_timeout) =>
                  /\ st.inv.pc = "fallback"
                  /\ st.log[Len(st.log)] = Ev("fallback_call", fallback_models[1])
                  /\ ~Has(st.log, "primary_call")

\* the OPEN breaker denied a call, the first fallback model failed and the
\* second one's result was returned
C18_Witness ==
    LET L == log["p1"]
    IN  /\ Done(L)
        /\ Ev("should_allow_request", "False") \in Range(L)
        /\ breaker.state = OPEN
        /\ ArgsOf(L, "fallback_call") = fallback_models
        /\ ArgsOf(L, "fallback_result")[1] \notin Responses
        /\ Returned(L) = "v1"

\* C19: an invocation that called the primary provider ends in exactly one of
\* two ways: the result is written to the cache under the request's key and
\* record_success is called; or nothing is written to the cache,
\* record_failure is called and the fallback chain is run.
C19_SuccessOrExhaustion ==
    \A p \in Procs :
        LET L == log[p]
            success == /\ ArgsOf(L, "set") = ArgsOf(L, "wrapper_return")
                       /\ Count(L, "set") = 1
                       /\ cache_enabled => /\ L[1].arg \in KeysOf(cache)
                                           /\ EntryOf(cache, L[1].arg).value = Returned(L)
                       /\ Count(L, "record_success") = 1
                       /\ ~Has(L, "record_failure")
                       /\ ~Has(L, "fallback_translation")
            exhaustion == /\ ~Has(L, "set")
                          /\ Count(L, "record_failure") = 1
                          /\ ~Has(L, "record_success")
                          /\ Has(L, "fallback_translation")
        IN  (Done(L) /\ Has(L, "primary_call")) =>
                /\ success \/ exhaustion
                /\ ~(success /\ exhaustion)

\* C20: an invocation that is not suspended has returned (it never ends by
\* raising); and one that got past the rate limiter and the cache, and in
\* which neither the primary provider nor a fallback provider gave a result,
\* returns the synthesized degraded result.
C20_DegradedWhenAllFail ==
    \A p \in Procs :
        LET L == log[p]
        IN  /\ (req[p].pc = "idle" /\ L # <<>>) => Done(L)
            /\ (Done(L) /\ Has(L, "should_allow_request")
                  /\ \A i \in DOMAIN L :
                        L[i].ev \in {"primary_result", "fallback_result"}
                            => L[i].arg \notin Responses) =>
                   Returned(L) = Degraded

----------------------------------------------------------------------------
(* What an invocation of translate_command leaves behind, under            *)
(* SpecTranslate                                                           *)

\* invocation p returns in this step
Returns(p) == log'[p] # log[p] /\ Done(log'[p])

\* the metrics as they were when the invocation that takes this step was called
MetricsAtCall(p) == IF req[p].pc = "idle" THEN metrics ELSE req[p].entry_metrics

\* C31: when an invocation of translate_command returns, by whichever branch,
\* translation_latency_ms holds one observation more than when it was called
\* and at least one counter is higher than when it was called.
C31_EveryBranchAudited ==
    [][\A p \in Procs :
           Returns(p) =>
               LET before == MetricsAtCall(p)
               IN  /\ Len(metrics'.histograms["translation_latency_ms"])
                        = Len(before.histograms["translation_latency_ms"]) + 1
                   /\ \E c \in CounterNames :
                          metrics'.counters[c] > before.counters[c]]_vars

\* C32: once an invocation that ran _fallback_translation has returned,
\* config.llm_model is the primary model again, whatever the fallback
\* providers answered; and every primary call goes to the primary model.
C32_FallbackRestoresModel ==
    \A p \in Procs :
        LET L == log[p]
        IN  /\ (Done(L) /\ Has(L, "fallback_translation")) => llm_model = PrimaryModel
            /\ \A m \in Range(ArgsOf(L, "primary_call")) : m = PrimaryModel

\* C35: an invocation of translate_command calls record_success or
\* record_failure at most once, and never after _fallback_translation was
\* entered; a step that ends a failed attempt with attempts remaining, and a
\* step that ends a fallback provider's call, leave the breaker as it was; so
\* an invocation adds at most one to failure_count, however many attempts failed.
C35_OneReportPerInvocation ==
    /\ [](\A p \in Procs :
            LET L == log[p]
            IN  /\ Count(L, "record_success") + Count(L, "record_failure") <= 1
                /\ \A i, j \in DOMAIN L :
                       (L[i].ev = "fallback_translation" /\ i < j) =>
                           L[j].ev \notin {"record_success", "record_failure"})
    /\ [][\A p \in Procs :
              /\ (log'[p] # log[p] /\ (req'[p].pc = "sleep" \/ req[p].pc = "fallback")) =>
                     breaker' = breaker
              /\ (log'[p] # log[p] /\ req[p].pc = "primary") =>
                     breaker'.failure_count <= breaker.failure_count + 1]_vars

\* every attempt failed and both fallback providers failed: the breaker was
\* told of one failure
C35_Witness ==
    LET L == log["p1"]
    IN  /\ Done(L)
        /\ Count(L, "primary_result") = retry_max_attempts
        /\ Count(L, "fallback_result") = Len(fallback_models)
        /\ Returned(L) = Degraded
        /\ Count(L, "record_failure") = 1
        /\ breaker.failure_count = 1
        /\ invocations = 1

----------------------------------------------------------------------------
(* translate_command on an event loop that resumes every coroutine whose   *)
(* await has ended: every provider call ends, in a response, in no result  *)
(* or in an exception, and every asyncio.sleep ends.  The invocations come *)
(* one after the other; the only time that passes is that of the sleeps.   *)

Sleep_ends(p, jitter) ==
    LET st == sleep_done(Service(p), jitter)
    IN  /\ req[p].pc = "sleep"
        /\ Becomes(p, st, "sleep_done")
        /\ since_tick' = NoCalls(TokenBucket_full(bucket, st.clock))
        /\ UNCHANGED invocations

Provider_answers(p) == \E outcome \in Outcomes : PrimaryReturns(p, outcome)

Sleep_over(p) == \E jitter \in Jitter(req[p].delay) : Sleep_ends(p, jitter)

Fallback_answers(p) == \E outcome \in FallbackOutcomes : FallbackReturns(p, outcome)

NextTermination ==
    \/ /\ invocations < MaxInvocations
       /\ \E rq \in Requests : Translate("p1", rq[1], rq[2])
    \/ Provider_answers("p1")
    \/ Sleep_over("p1")
    \/ Fallback_answers("p1")

SpecTermination ==
    /\ Init
    /\ [][NextTermination]_vars
    /\ WF_vars(Provider_answers("p1"))
    /\ WF_vars(Sleep_over("p1"))
    /\ WF_vars(Fallback_answers("p1"))

\* C36: an invocation of translate_command calls the primary provider at most
\* retry_max_attempts times, then the fallback providers in the configured
\* order, each at most once, and no primary call follows a fallback call; and
\* every invocation that was called returns.
C36_TranslateTerminates ==
    /\ [](\A p \in Procs :
            LET L == log[p]
            IN  /\ Count(L, "primary_call") <= retry_max_attempts
                /\ Count(L, "fallback_call") <= Len(fallback_models)
                /\ IsPrefix(ArgsOf(L, "fallback_call"), fallback_models)
                /\ \A i, j \in DOMAIN L :
                       (L[i].ev = "fallback_call" /\ i < j) => L[j].ev # "primary_call")
    /\ (\E p \in Procs : req[p].pc # "idle")
           ~> (\A p \in Procs : req[p].pc = "idle" /\ (log[p] # <<>> => Done(log[p])))

\* an invocation made every call it can make, retry_max_attempts primary
\* calls and one call of each fallback provider, and returned the last
\* fallback provider's result
C36_Witness ==
    LET L == log["p1"]
    IN  /\ Done(L)
        /\ Count(L, "primary_call") = retry_max_attempts
        /\ Count(L, "sleep") = retry_max_attempts - 1
        /\ Count(L, "fallback_call") = Len(fallback_models)
        /\ Returned(L) = "v1"

----------------------------------------------------------------------------
(* Two coroutines calling translate_command on one LLMService: each runs   *)
(* without interruption from one await to the next, and the event loop     *)
(* resumes them in any order.  Both ask for the same translation, and a    *)
(* provider call that raises raises APIError.                              *)

NextConcurrent ==
    \/ /\ invocations < MaxInvocations
       /\ \E p \in Procs : Translate(p, "ls", "/")
    \/ \E p \in Procs, outcome \in FallbackOutcomes : PrimaryReturns(p, outcome)
    \/ \E p \in Procs : Sleep_over(p)
    \/ \E p \in Procs : Fallback_answers(p)

SpecConcurrent == Init /\ [][NextConcurrent]_vars

\* C33: every call of the primary provider's step (the calls made by
\* _call_llm_with_retry_wrapper) is sent to the configured primary model,
\* whatever the other invocation is doing at that moment.
C33_PrimaryCallsUsePrimaryModel ==
    \A p \in Procs :
        \A i \in DOMAIN log[p] :
            log[p][i].ev = "primary_call" => log[p][i].arg = PrimaryModel

----------------------------------------------------------------------------
(* The backoff delay as a function of the retry configuration and the      *)
(* attempt number: lines 672-679 on their own, under any configuration     *)

RetryConfigs ==
    [retry_base_delay       : 1 .. MaxBaseDelay,
     retry_max_delay        : 1 .. MaxDelayCap,
     retry_exponential_base : 1 .. MaxExponentialBase,
     retry_jitter           : BOOLEAN]

InitRetry ==
    /\ Constructed
    /\ QueueConstructed
    /\ backoff \in {Backoff_init(config) : config \in RetryConfigs}

\* delay = min(...); if retry_jitter: delay += random.uniform(0, delay * 0.1);
\* u is what random.uniform returned; the result is in ticks
retry_sleep(config, attempt, u) ==
    backoff_delay(config, attempt) * TicksPerSecond + u

Call_backoff(attempt, u) ==
    /\ backoff' = [backoff EXCEPT !.computed = TRUE,
                                  !.attempt = attempt,
                                  !.delay = retry_sleep(backoff.config, attempt, u),
                                  !.jitter = u]
    /\ UNCHANGED <<now, clock, cache_enabled, metrics, call, breaker_vars, cache_vars,
                   limiter_vars, tally, service_vars, queue_vars>>

NextRetry ==
    \E attempt \in 0 .. MaxAttempt :
        \E u \in uniform_jitter(backoff.config, backoff_delay(backoff.config, attempt)) :
            Call_backoff(attempt, u)

SpecRetry == InitRetry /\ [][NextRetry]_vars

\* C30: with jitter off the delay after failed attempt i (counted from 0) is
\* min(max_delay, base_delay * exponential_base^i), so it is at most
\* max_delay and at least the delay after attempt i - 1; with jitter on the
\* delay lies between that d and 1.1 * d.
C30_BackoffDelay ==
    backoff.computed =>
        LET c == backoff.config
            i == backoff.attempt
            d == Min(c.retry_max_delay,
                     c.retry_base_delay * c.retry_exponential_base ^ i)
        IN  IF ~c.retry_jitter
            THEN /\ backoff.delay = d * TicksPerSecond
                 /\ backoff.delay <= c.retry_max_delay * TicksPerSecond
                 /\ i > 0 => \A u \in uniform_jitter(c, backoff_delay(c, i - 1)) :
                                 retry_sleep(c, i - 1, u) <= backoff.delay
            ELSE /\ d * TicksPerSecond <= backoff.delay
                 /\ 10 * backoff.delay <= 11 * d * TicksPerSecond

\* jitter is on, the cap cut the exponential delay and random.uniform
\* returned more than 0
C30_Witness ==
    /\ backoff.attempt > 0
    /\ backoff.config.retry_jitter
    /\ backoff.config.retry_base_delay
           * backoff.config.retry_exponential_base ^ backoff.attempt
               > backoff.config.retry_max_delay
    /\ backoff.jitter > 0
    /\ backoff.delay = backoff.config.retry_max_delay * TicksPerSecond + backoff.jitter

----------------------------------------------------------------------------
(* InputValidator (input_validator.py) *)

MAX_INPUT_LENGTH == 10000
MIN_INPUT_LENGTH == 1

\* what \s matches in a line read by input()
Whitespace == {" ", "\t"}

CharAt(s, i) == SubSeq(s, i, i)

\* the literal lit stands in s at position i
StartsAt(s, i, lit) ==
    /\ i + Len(lit) - 1 <= Len(s)
    /\ SubSeq(s, i, i + Len(lit) - 1) = lit

\* the first position from i on that holds no whitespace
RECURSIVE SkipSpace(_, _)
SkipSpace(s, i) ==
    IF i <= Len(s) /\ CharAt(s, i) \in Whitespace THEN SkipSpace(s, i + 1) ELSE i

\* suspicious_pattern_regex.search(user_input) on lower-case text without line
\* breaks and without backquotes: the SUSPICIOUS_PATTERNS but the backquote one
suspicious_pattern_search(s) ==
    \E i \in 1 .. Len(s) :
        \/ /\ StartsAt(s, i, ";")
           /\ LET j == SkipSpace(s, i + 1)
              IN  /\ StartsAt(s, j, "rm")
                  /\ j + 2 <= Len(s)
                  /\ CharAt(s, j + 2) \in Whitespace
                  /\ StartsAt(s, SkipSpace(s, j + 2), "-rf")
        \/ /\ StartsAt(s, i, "$(")
           /\ \E j \in i + 2 .. Len(s) : CharAt(s, j) = ")"
        \/ /\ StartsAt(s, i, "&&")
           /\ StartsAt(s, SkipSpace(s, i + 2), "rm")
        \/ /\ StartsAt(s, i, "|")
           /\ StartsAt(s, SkipSpace(s, i + 1), "sh")
        \/ /\ StartsAt(s, i, ">")
           /\ StartsAt(s, SkipSpace(s, i + 1), "/dev/")
        \/ /\ StartsAt(s, i, "<")
           /\ StartsAt(s, SkipSpace(s, i + 1), "(")
        \/ /\ \/ StartsAt(s, i, "eval")
              \/ StartsAt(s, i, "exec")
           /\ i + 4 <= Len(s)
           /\ CharAt(s, i + 4) \in Whitespace

\* _sanitize: ' '.join(user_input.strip().split()), from position i on, with
\* acc the text built so far and gap whether whitespace was passed since
RECURSIVE sanitize_from(_, _, _, _)
sanitize_from(s, i, acc, gap) ==
    IF i > Len(s)
    THEN acc
    ELSE IF CharAt(s, i) \in Whitespace
    THEN sanitize_from(s, i + 1, acc, acc # "")
    ELSE sanitize_from(s, i + 1, (IF gap THEN acc \o " " ELSE acc) \o CharAt(s, i), FALSE)

InputValidator_sanitize(user_input) == sanitize_from(user_input, 1, "", FALSE)

ValidationResult(is_valid, sanitized_input, risk_level) ==
    [is_valid |-> is_valid, sanitized_input |-> sanitized_input, risk_level |-> risk_level]

\* InputValidator.validate on a text that holds no null byte
InputValidator_validate(user_input) ==
    IF Len(user_input) < MIN_INPUT_LENGTH
    THEN ValidationResult(FALSE, "", "low")
    ELSE IF Len(user_input) > MAX_INPUT_LENGTH
    THEN ValidationResult(FALSE, "", "medium")
    ELSE IF suspicious_pattern_search(user_input)
    THEN ValidationResult(FALSE, "", "high")
    ELSE ValidationResult(TRUE, InputValidator_sanitize(user_input), "low")

----------------------------------------------------------------------------
(* EnterpriseGPTShell: the prompt loop hands a line to translate_and_execute *)

\* the lines the user types, stripped; none is empty, a built-in command or
\* a direct command (one that starts with '!')
ShellInputs == {"ls", "eval ls"}

\* os.getcwd()
Cwd == "/"

\* translate_and_execute up to the first suspension point of
\* translate_command or up to its return; what it does with the result
\* (the confirmation prompt and the execution of the command) is not modelled
translate_and_execute(st, user_input) ==
    translate_command(st, user_input, Cwd)

Run_translate_and_execute(p, user_input) ==
    LET st == translate_and_execute(Service(p), user_input)
    IN  /\ req[p].pc = "idle"
        /\ invocations < MaxRequests
        /\ invocations' = invocations + 1
        /\ since_tick' = [since_tick EXCEPT
                              !.rets = Append(@, Ev("allow_request", "True") \in Range(st.log))]
        /\ Becomes(p, st, "translate_and_execute")

NextShell ==
    \/ TranslateTick
    \/ \E user_input \in ShellInputs : Run_translate_and_execute("p1", user_input)
    \/ \E outcome \in Outcomes : PrimaryReturns("p1", outcome)
    \/ \E jitter \in Jitter(req["p1"].delay) : SleepReturns("p1", jitter)
    \/ \E outcome \in FallbackOutcomes : FallbackReturns("p1", outcome)

SpecShell == Init /\ [][NextShell]_vars

\* C21: a line the input validator rejects does not enter the translate
\* pipeline: its handling asks the rate limiter for no token, looks nothing up
\* in the cache and calls no provider.
C21_RejectedNeverEnters ==
    \A p \in Procs, user_input \in ShellInputs :
        LET L == log[p]
        IN  (/\ ~InputValidator_validate(user_input).is_valid
             /\ L # <<>>
             /\ L[1] = Ev("translate_command", user_input \o ":" \o Cwd)) =>
                \A i \in DOMAIN L :
                    L[i].ev \notin {"allow_request", "get", "primary_call", "fallback_call"}

----------------------------------------------------------------------------
(* The TaskQueue with its callers and its workers: every step is the run of *)
(* one coroutine from one suspension point to the next. A queue.get that    *)
(* times out while the queue is running leaves its worker waiting in the    *)
(* next queue.get, so it is no step of its own.                             *)

\* what the queue's methods and workers leave alone
llm_vars == <<now, clock, cache_enabled, call, breaker_vars, cache_vars, limiter_vars,
              tally, service_vars, backoff, orphans>>

\* how a task.func ends: it returns or it raises an Exception
TaskOutcomes == {"ok", "raise"}

Start ==
    /\ lifecycle = "constructed"
    /\ task_queue' = TaskQueue_start(task_queue)
    /\ lifecycle' = "started"
    /\ UNCHANGED <<metrics, putters, task_hist>>

Stop ==
    /\ lifecycle = "started"
    /\ task_queue' = TaskQueue_stop(task_queue)
    /\ lifecycle' = "stopping"
    /\ UNCHANGED <<metrics, putters, task_hist>>

StopReturns ==
    /\ lifecycle = "stopping"
    /\ gathered(task_queue.workers)
    /\ lifecycle' = "stopped"
    /\ UNCHANGED <<metrics, task_queue, putters, task_hist>>

Call_start == Start /\ UNCHANGED <<shell, llm_vars>>

Call_stop == Stop /\ UNCHANGED <<shell, llm_vars>>

Stop_returns == StopReturns /\ UNCHANGED <<shell, llm_vars>>

\* the number of enqueue calls made so far
Enqueued == Cardinality({id \in DOMAIN task_hist : task_hist[id] # "none"})

Call_enqueue(priority) ==
    LET task == Task(Enqueued + 1, priority)
        r    == TaskQueue_enqueue(task_queue, metrics, task)
    IN  /\ Enqueued < MaxTasks
        /\ r.ret = "wait" => Cardinality(putters) < MaxPutters
        /\ task_queue' = r.self
        /\ metrics' = r.metrics
        /\ putters' = IF r.ret = "wait" THEN putters \cup {task} ELSE putters
        /\ task_hist' = [task_hist EXCEPT
                             ![task.id] = IF r.ret = "wait" THEN "waiting" ELSE "queued"]
        /\ UNCHANGED <<lifecycle, shell, llm_vars>>

Put_resumes(task) ==
    LET r == put_done(task_queue, metrics, task)
    IN  /\ task \in putters
        /\ ~PriorityQueue_full(task_queue.queue)
        /\ task_queue' = r.self
        /\ metrics' = r.metrics
        /\ putters' = putters \ {task}
        /\ task_hist' = [task_hist EXCEPT ![task.id] = "queued"]
        /\ UNCHANGED <<lifecycle, shell, llm_vars>>

Put_times_out(task) ==
    LET r == put_timeout(task_queue, metrics, task)
    IN  /\ task \in putters
        /\ task_queue' = r.self
        /\ metrics' = r.metrics
        /\ putters' = putters \ {task}
        /\ task_hist' = [task_hist EXCEPT ![task.id] = "rejected"]
        /\ UNCHANGED <<lifecycle, shell, llm_vars>>

Workers == DOMAIN task_queue.workers

Worker_begins(w) ==
    /\ task_queue.workers[w].pc = "new"
    /\ ~task_queue.workers[w].cancel
    /\ task_queue' = worker_loop(task_queue, w)
    /\ UNCHANGED <<metrics, putters, lifecycle, task_hist, shell, llm_vars>>

Worker_gets(w) ==
    LET r == worker_get(task_queue, metrics, w, clock)
    IN  /\ task_queue.workers[w].pc = "get"
        /\ ~task_queue.workers[w].cancel
        /\ task_queue.queue # <<>>
        /\ task_queue' = r.self
        /\ metrics' = r.metrics
        /\ task_hist' = [task_hist EXCEPT ![r.self.workers[w].task.id] = "running"]
        /\ UNCHANGED <<putters, lifecycle, shell, llm_vars>>

Task_ends(w, outcome) ==
    LET r == worker_result(task_queue, metrics, w, outcome, clock)
    IN  /\ task_queue.workers[w].pc = "run"
        /\ ~task_queue.workers[w].cancel
        /\ task_queue' = r.self
        /\ metrics' = r.metrics
        /\ task_hist' = [task_hist EXCEPT ![task_queue.workers[w].task.id] =
                             IF outcome = "raise" THEN "failed" ELSE "completed"]
        /\ UNCHANGED <<putters, lifecycle, shell, llm_vars>>

Worker_cancelled(w) ==
    /\ task_queue.workers[w].pc # "done"
    /\ task_queue.workers[w].cancel
    /\ task_queue' = worker_cancelled(task_queue, w)
    /\ task_hist' = IF task_queue.workers[w].pc = "run"
                    THEN [task_hist EXCEPT ![task_queue.workers[w].task.id] = "abandoned"]
                    ELSE task_hist
    /\ UNCHANGED <<metrics, putters, lifecycle, shell, llm_vars>>

NextQueue ==
    \/ Call_start
    \/ Call_stop
    \/ Stop_returns
    \/ \E priority \in Priorities : Call_enqueue(priority)
    \/ \E task \in putters : Put_resumes(task)
    \/ \E task \in putters : Put_times_out(task)
    \/ \E w \in Workers : Worker_begins(w)
    \/ \E w \in Workers : Worker_gets(w)
    \/ \E w \in Workers, outcome \in TaskOutcomes : Task_ends(w, outcome)
    \/ \E w \in Workers : Worker_cancelled(w)

SpecQueue == Init /\ [][NextQueue]_vars

----------------------------------------------------------------------------
(* Properties of the TaskQueue, under SpecQueue *)

\* C22: the task a worker takes has the lowest priority value of the queued
\* tasks and, of the queued tasks with that priority, is the one that
\* arrived first.
C22_LowestPriorityFifo ==
    \A w \in Workers :
        (task_queue.workers[w].pc = "get" /\ task_queue.queue # <<>>) =>
            LET taken == worker_get(task_queue, metrics, w, clock).self.workers[w].task
            IN  \A i \in DOMAIN task_queue.queue :
                    LET other == task_queue.queue[i]
                    IN  \/ taken.priority < other.priority
                        \/ taken.priority = other.priority /\ taken.seq <= other.seq

\* the tasks that have come to the given end
Ended(how) == {id \in DOMAIN task_hist : task_hist[id] = how}

\* C23: a task whose func raises is counted in tasks_failed and does not end
\* the worker that ran it: as long as the queue is running that worker waits
\* for, or runs, a further task; a worker ends only once stop() has
\* cancelled it, so the tasks that failed keep no other task from completing.
C23_FailureContained ==
    /\ metrics.counters["tasks_failed"] = Cardinality(Ended("failed"))
    /\ metrics.counters["tasks_completed"] = Cardinality(Ended("completed"))
    /\ \A w \in Workers :
           /\ (task_queue.workers[w].last = "raise" /\ task_queue.running)
                  => task_queue.workers[w].pc \in {"get", "run"}
           /\ task_queue.workers[w].pc = "done"
                  => (task_queue.workers[w].cancel /\ ~task_queue.running)
           /\ (task_queue.workers[w].pc = "run" /\ ~task_queue.workers[w].cancel) =>
                  LET r == worker_result(task_queue, metrics, w, "raise", clock)
                  IN  /\ r.self.workers[w].pc = "get"
                      /\ r.self.queue = task_queue.queue
                      /\ r.metrics.counters["tasks_failed"]
                             = metrics.counters["tasks_failed"] + 1

\* a worker's task failed, the same worker went on with a further task, and
\* two tasks enqueued along with the failing one have completed
C23_Witness ==
    /\ task_queue.running
    /\ metrics.counters["tasks_failed"] = 1
    /\ metrics.counters["tasks_completed"] = 2
    /\ \E w \in Workers :
           /\ task_queue.workers[w].last = "raise"
           /\ task_queue.workers[w].pc = "run"

\* the ids of the tasks that are in the queue or in a worker's hands
Held ==
    {task_queue.queue[i].id : i \in DOMAIN task_queue.queue}
        \cup {task_queue.workers[w].task.id : w \in {v \in Workers : task_queue.workers[v].pc = "run"}}

\* C24: the queue never holds more than task_queue_max_size tasks; an enqueue
\* whose wait for a free slot times out raises the timeout error, adds one to
\* tasks_rejected and leaves the queue as it is; a rejected task is never
\* queued or run.
C24_BoundedAndRejecting ==
    /\ Len(task_queue.queue) <= task_queue_max_size
    /\ metrics.counters["tasks_rejected"] = Cardinality(Ended("rejected"))
    /\ Ended("rejected") \cap Held = {}
    /\ \A task \in putters :
           /\ task.id \notin Held
           /\ LET r == put_timeout(task_queue, metrics, task)
              IN  /\ r.ret = "TimeoutError"
                  /\ r.self = task_queue
                  /\ r.metrics = Metrics_increment(metrics, "tasks_rejected")
    /\ \A priority \in Priorities :
           PriorityQueue_full(task_queue.queue) =>
               LET r == TaskQueue_enqueue(task_queue, metrics, Task(Enqueued + 1, priority))
               IN  r.ret = "wait" /\ r.self = task_queue /\ r.metrics = metrics

\* an enqueue on the full queue was rejected; the tasks that were accepted
\* have since been taken and the queue is empty
C24_Witness ==
    /\ metrics.counters["tasks_rejected"] = 1
    /\ metrics.counters["tasks_enqueued"] = task_queue_max_size
    /\ task_hist[task_queue_max_size + 1] = "rejected"
    /\ Len(task_queue.queue) = 0
    /\ Ended("completed") \cup Ended("failed") # {}

\* C25: stop() calls cancel() on every worker loop that has not ended and
\* returns only when every worker loop has ended; after its return no worker
\* loop runs.
C25_StopAwaitsWorkers ==
    /\ lifecycle = "started" =>
           LET r == TaskQueue_stop(task_queue)
           IN  /\ ~r.running
               /\ \A w \in Workers : r.workers[w].pc # "done" => r.workers[w].cancel
    /\ lifecycle = "stopping" =>
           \A w \in Workers : task_queue.workers[w].pc = "done" \/ task_queue.workers[w].cancel
    /\ lifecycle = "stopped" =>
           \A w \in Workers : task_queue.workers[w].pc = "done"

\* stop() has returned; a task that a worker was running when it was
\* cancelled was abandoned, and tasks are left in the queue
C25_Witness ==
    /\ lifecycle = "stopped"
    /\ Workers # {}
    /\ Ended("abandoned") # {}
    /\ Ended("completed") # {}
    /\ task_queue.queue # <<>>

\* the ids of the tasks that a worker has taken from the queue
Taken == DOMAIN task_hist \ (Ended("none") \cup Ended("waiting") \cup Ended("queued")
                                \cup Ended("rejected"))

\* the ids of the tasks that a worker is running
InHand == {task_queue.workers[w].task.id :
               w \in {v \in Workers : task_queue.workers[v].pc = "run"}}

\* C38: every task that a worker took from the queue and no longer runs,
\* whether its func returned, raised or was cut short by stop(), was counted
\* once: as tasks_completed or as tasks_failed.
C38_TakenTasksCounted ==
    /\ \A id \in Taken \ InHand : task_hist[id] \in {"completed", "failed"}
    /\ metrics.counters["tasks_completed"] + metrics.counters["tasks_failed"]
          = Cardinality(Taken \ InHand)

----------------------------------------------------------------------------
(* The queue at work with stop() never called and tasks arriving without   *)
(* end: the event loop resumes every worker that can go on, and every      *)
(* task.func ends.  A run of this kind never ends, so what grows along it  *)
(* and is read by no step of the queue is held at a bound: the counters    *)
(* and the histogram stop at MaxKept, and the entry of task_hist of a task *)
(* that has ended is taken over by a task that arrives later, MaxAlive     *)
(* entries being in use.                                                   *)

\* m with every counter above MaxKept read as MaxKept and with the last
\* MaxKept observations of every histogram
Capped(m) ==
    [m EXCEPT !.counters = [c \in DOMAIN @ |-> Min(@[c], MaxKept)],
              !.histograms = [h \in DOMAIN @ |->
                                 IF Len(@[h]) > MaxKept
                                 THEN SubSeq(@[h], Len(@[h]) - MaxKept + 1, Len(@[h]))
                                 ELSE @[h]]]

\* the entries of task_hist that stand for no task that is waiting or running
FreeSlots == {id \in 1 .. MaxAlive : task_hist[id] \in {"none", "completed", "failed"}}

\* enqueue called when the queue has a free slot
Task_arrives(priority) ==
    LET id == CHOOSE i \in FreeSlots : \A j \in FreeSlots : i <= j
        r  == TaskQueue_enqueue(task_queue, metrics, Task(id, priority))
    IN  /\ FreeSlots # {}
        /\ r.ret = "id"
        /\ task_queue' = r.self
        /\ metrics' = Capped(r.metrics)
        /\ task_hist' = [task_hist EXCEPT ![id] = "queued"]
        /\ UNCHANGED <<putters, lifecycle, shell, llm_vars>>

\* task.func of worker w returns or raises an Exception
Task_over(w, outcome) ==
    LET r == worker_result(task_queue, metrics, w, outcome, clock)
    IN  /\ task_queue.workers[w].pc = "run"
        /\ task_queue' = r.self
        /\ metrics' = Capped(r.metrics)
        /\ task_hist' = [task_hist EXCEPT ![task_queue.workers[w].task.id] =
                             IF outcome = "raise" THEN "failed" ELSE "completed"]
        /\ UNCHANGED <<putters, lifecycle, shell, llm_vars>>

\* the steps of worker w: its first run, taking a task, the end of its task
Worker_step(w) ==
    /\ w \in Workers
    /\ \/ Worker_begins(w)
       \/ Worker_gets(w)
       \/ \E outcome \in TaskOutcomes : Task_over(w, outcome)

NextQueueFair ==
    \/ Call_start
    \/ \E priority \in Priorities : Task_arrives(priority)
    \/ \E w \in 1 .. task_queue_workers : Worker_step(w)

SpecQueueFair ==
    /\ Init
    /\ [][NextQueueFair]_vars
    /\ \A w \in 1 .. task_queue_workers : WF_vars(Worker_step(w))

\* C40: once the queue is started, every task that enqueue has put into
\* the queue is eventually taken by a worker and run to its end.
C40_EnqueuedTasksRun ==
    \A id \in 1 .. MaxAlive :
        (lifecycle = "started" /\ task_hist[id] = "queued")
            ~> (task_hist[id] \in {"completed", "failed"})

----------------------------------------------------------------------------
(* start() and stop() called one after the other in any order and any      *)
(* number of times, on a queue that holds no task.  start() puts new       *)
(* worker tasks into self.workers whatever the list held before; the       *)
(* worker tasks it held keep running, out of stop()'s reach.               *)

\* what start() and stop() leave alone
pool_frame == <<now, clock, cache_enabled, call, breaker_vars, cache_vars, limiter_vars,
                tally, service_vars, backoff, metrics, putters, task_hist, shell>>

Pool_start ==
    /\ lifecycle # "stopping"
    /\ Len(orphans) + Len(unfinished(task_queue.workers)) <= MaxOrphans
    /\ orphans' = orphans \o unfinished(task_queue.workers)
    /\ task_queue' = TaskQueue_start(task_queue)
    /\ lifecycle' = "started"
    /\ UNCHANGED pool_frame

Pool_stop ==
    /\ lifecycle # "stopping"
    /\ task_queue' = TaskQueue_stop(task_queue)
    /\ lifecycle' = "stopping"
    /\ UNCHANGED <<orphans, pool_frame>>

\* a worker task that start() has replaced runs for the first time
Orphan_begins(i) ==
    /\ orphans[i].pc = "new"
    /\ orphans' = unfinished([orphans EXCEPT ![i] = orphan_loop(task_queue, @)])
    /\ UNCHANGED <<task_queue, lifecycle, pool_frame>>

\* its queue.get times out after stop() has set running to False: the loop ends
Orphan_times_out(i) ==
    /\ orphans[i].pc = "get"
    /\ ~task_queue.running
    /\ orphans' = unfinished([orphans EXCEPT ![i] = orphan_loop(task_queue, @)])
    /\ UNCHANGED <<task_queue, lifecycle, pool_frame>>

NextPool ==
    \/ Pool_start
    \/ Pool_stop
    \/ Stop_returns
    \/ \E w \in Workers : Worker_begins(w)
    \/ \E w \in Workers : Worker_cancelled(w)
    \/ \E i \in DOMAIN orphans : Orphan_begins(i)
    \/ \E i \in DOMAIN orphans : Orphan_times_out(i)

SpecPool == Init /\ [][NextPool]_vars

\* the number of worker loops that have not ended
Alive == Len(unfinished(task_queue.workers)) + Len(orphans)

\* C39: whatever start() and stop() calls were made, at most
\* task_queue_workers worker loops are alive, and none is alive once stop()
\* has returned.
C39_PoolSize ==
    /\ Alive <= task_queue_workers
    /\ lifecycle = "stopped" => Alive = 0

----------------------------------------------------------------------------
(* The shell's life: initialize, the queue and the background loops at     *)
(* work, shutdown                                                          *)

\* what the shell's initialize, shutdown and background loops leave alone
idle_vars == <<now, clock, cache_enabled, call, breaker_vars, touch, fresh, limiter_vars,
               tally, service_vars, backoff, orphans>>

Initialize ==
    /\ shell.pc = "constructed"
    /\ Start
    /\ shell' = Shell_initialize(shell)
    /\ UNCHANGED <<cache, idle_vars>>

Shutdown ==
    /\ shell.pc = "running"
    /\ Stop
    /\ shell' = Shell_shutdown(shell)
    /\ UNCHANGED <<cache, idle_vars>>

Shutdown_queue_stopped ==
    /\ shell.pc = "stop_queue"
    /\ StopReturns
    /\ shell' = Shell_cancel_background(shell)
    /\ UNCHANGED <<cache, idle_vars>>

Shutdown_complete ==
    /\ shell.pc = "stop_background"
    /\ background_gathered(shell)
    /\ shell' = [shell EXCEPT !.pc = "down"]
    /\ UNCHANGED <<cache, metrics, task_queue, putters, lifecycle, task_hist, idle_vars>>

\* a background task runs for the first time, up to its asyncio.sleep
Loop_begins(l) ==
    /\ shell.background[l] = "new"
    /\ shell' = [shell EXCEPT !.background[l] = "sleep"]
    /\ UNCHANGED <<cache, metrics, task_queue, putters, lifecycle, task_hist, idle_vars>>

\* asyncio.sleep returned: the loop's body runs and the loop sleeps again
Loop_wakes(l) ==
    /\ shell.background[l] = "sleep"
    /\ IF l = "periodic_cache_cleanup"
       THEN LET r == LRUCache_cleanup_expired(cache, metrics, now)
            IN  cache' = r.cache /\ metrics' = r.metrics
       ELSE IF l = "periodic_gc"
       THEN /\ metrics.counters["gc_runs"] < MaxCount
            /\ metrics' = Metrics_increment(metrics, "gc_runs")
            /\ UNCHANGED cache
       ELSE UNCHANGED <<cache, metrics>>
    /\ UNCHANGED <<shell, task_queue, putters, lifecycle, task_hist, idle_vars>>

\* CancelledError ends a background task where it sleeps, or before it first runs
Loop_cancelled(l) ==
    /\ shell.background[l] = "cancelling"
    /\ shell' = [shell EXCEPT !.background[l] = "done"]
    /\ UNCHANGED <<cache, metrics, task_queue, putters, lifecycle, task_hist, idle_vars>>

NextShutdown ==
    \/ Initialize
    \/ Shutdown
    \/ Shutdown_queue_stopped
    \/ Shutdown_complete
    \/ \E l \in BackgroundLoops : Loop_begins(l)
    \/ \E l \in BackgroundLoops : Loop_wakes(l)
    \/ \E l \in BackgroundLoops : Loop_cancelled(l)
    \/ \E priority \in Priorities : Call_enqueue(priority)
    \/ \E task \in putters : Put_resumes(task)
    \/ \E task \in putters : Put_times_out(task)
    \/ \E w \in Workers : Worker_begins(w)
    \/ \E w \in Workers : Worker_gets(w)
    \/ \E w \in Workers, outcome \in TaskOutcomes : Task_ends(w, outcome)
    \/ \E w \in Workers : Worker_cancelled(w)

SpecShutdown == Init /\ [][NextShutdown]_vars

\* C26: shutdown goes in three steps, in this order: (a) from its beginning
\* on the queue accepts no new task; (b) every worker loop is cancelled and
\* has ended before (c) the background loops are cancelled, and every
\* background loop has ended when shutdown is complete.
C26_ShutdownOrder ==
    /\ shell.pc \in {"stop_queue", "stop_background", "down"} =>
           \A priority \in Priorities :
               TaskQueue_enqueue(task_queue, metrics, Task(Enqueued + 1, priority)).ret # "id"
    /\ shell.pc = "stop_queue" =>
           /\ \A w \in Workers :
                  task_queue.workers[w].pc = "done" \/ task_queue.workers[w].cancel
           /\ \A l \in BackgroundLoops : shell.background[l] \in {"new", "sleep"}
    /\ shell.pc \in {"stop_background", "down"} =>
           /\ \A w \in Workers : task_queue.workers[w].pc = "done"
           /\ \A l \in BackgroundLoops : shell.background[l] \in {"cancelling", "done"}
    /\ shell.pc = "down" =>
           \A l \in BackgroundLoops : shell.background[l] = "done"

====
